---- MODULE Spec2Model ----
(***************************************************************************)
(* Model of the event dispatch and widget lifecycle system of orbtk        *)
(* (crates/api/src/systems/event_state_system.rs): the bottom-up hit-test  *)
(* walk, direct dispatch, the drain-and-update loop of run_with_context    *)
(* and the removal of widgets.                                             *)
(***************************************************************************)
EXTENDS Integers, Sequences, FiniteSets, TLC

\* ------------------------------------------------------------------------
\* Bounds of the model
\* ------------------------------------------------------------------------
MaxEntities == 4
MaxCreate == 1
MaxPos == 1
MaxOff == 1
MaxClip == 1
MaxQueue == 2
MaxPush == 1
MaxDirty == 2
MaxRemove == 2
MaxMark == 1
MaxLog == 2

\* ------------------------------------------------------------------------
\* Values
\* ------------------------------------------------------------------------
Entity == 1..(MaxEntities + MaxCreate)
Nodes == 1..MaxEntities
None == 0
\* the push budget of a call whose states push events without limit
Unlimited == -1
Positions == 0..MaxPos
PointerKinds == {"Scroll", "Click", "MouseDown", "MouseMove"}
KeyKinds == {"KeyDown", "KeyUp"}
BottomUpKinds == PointerKinds \cup KeyKinds

VARIABLES
  \* entity store (Tree) and component store of the ecm
  entities, entity_counter, parent, children, enabled, visibility, clip,
  bounds, keyboard_state, dirty_widgets,
  \* context provider
  handler_map, states, layouts, render_objects, event_queue, first_run,
  mouse_position,
  \* locals of process_bottom_up_event
  event, current_node, disabled_parents, clipped_parent, matching_nodes,
  unknown_event, handled, node_index, bu_update,
  \* locals of run_with_context
  pc, update, remove_widget_list, dirty_index, keys, remove_queue,
  push_budget, remove_budget, mark_budget, quit,
  \* observable trace: the handler invocations for the event dequeued last,
  \* the state callbacks each entity received in the call, the number of
  \* dirty passes begun and the widget whose update ran last
  calls, log, passes, last_updated, pass_len,
  \* the key events dequeued so far
  key_log,
  \* theme cascade: the theme, the selector of a widget and the value the
  \* last lookup returned
  theme, selector, result,
  \* construction of the flattened theme: the call stack of the recursive
  \* walk along the base references
  loader,
  \* widget containers: the selector, the properties and the themed values
  \* of every entity, and the call made last
  widgets,
  \* text selection layout: the layout's cached size and previous
  \* selection, the components it reads and writes, and the call made last
  layout,
  \* text behavior: the text, the selection and the pending action of a
  \* text field
  behavior,
  \* slider: the range and the value of a slider, the values its state
  \* cached and the pending action
  slider,
  \* numeric box: the value, the range and the step of a numeric box, its
  \* input text and the pending action
  numeric_box

ecmVars == <<entities, entity_counter, parent, children, enabled, visibility,
             clip, bounds, keyboard_state, dirty_widgets>>
providerVars == <<handler_map, states, layouts, render_objects, event_queue,
                  first_run, mouse_position>>
walkVars == <<event, current_node, disabled_parents, clipped_parent,
              matching_nodes, unknown_event, handled, node_index, bu_update>>
runVars == <<pc, update, remove_widget_list, dirty_index, keys, remove_queue,
             push_budget, remove_budget, mark_budget, quit>>
traceVars == <<calls, log, passes, last_updated, pass_len, key_log>>
themeVars == <<theme, selector, result>>
systemVars == <<ecmVars, providerVars, walkVars, runVars, traceVars>>
\* everything outside the event state system
extVars == <<themeVars, loader, widgets, layout, behavior, slider, numeric_box>>
\* everything outside the theme lookups
themeFrame == <<systemVars, loader, widgets, layout, behavior, slider, numeric_box>>
\* everything outside the construction of the flattened theme
loaderFrame == <<systemVars, widgets, layout, behavior, slider, numeric_box>>
\* everything outside the widget containers
widgetsFrame == <<systemVars, themeVars, loader, layout, behavior, slider, numeric_box>>
\* everything outside the text selection layout
layoutFrame == <<systemVars, themeVars, loader, widgets, behavior, slider, numeric_box>>
\* everything outside the text behavior
behaviorFrame == <<systemVars, themeVars, loader, widgets, layout, slider, numeric_box>>
\* everything outside the slider
sliderFrame == <<systemVars, themeVars, loader, widgets, layout, behavior, numeric_box>>
\* everything outside the numeric box
numericBoxFrame == <<systemVars, themeVars, loader, widgets, layout, behavior, slider>>
vars == <<systemVars, extVars>>

\* ------------------------------------------------------------------------
\* Sequence helpers
\* ------------------------------------------------------------------------
Contains(s, x) == \E i \in 1..Len(s) : s[i] = x
Last(s) == s[Len(s)]
Front(s) == SubSeq(s, 1, Len(s) - 1)
Reverse(s) == [i \in 1..Len(s) |-> s[Len(s) + 1 - i]]
IndexOf(s, x) == CHOOSE i \in 1..Len(s) : s[i] = x
Range(s) == {s[i] : i \in 1..Len(s)}

RECURSIVE SortedSeq(_)
SortedSeq(S) ==
  IF S = {} THEN <<>>
  ELSE LET m == CHOOSE x \in S : \A y \in S : x <= y
       IN <<m>> \o SortedSeq(S \ {m})

\* ------------------------------------------------------------------------
\* Tree (entity store)
\* ------------------------------------------------------------------------
root == 1

\* the node the tree iterator yields after n: first child, else the next
\* sibling, else the next sibling of the nearest ancestor that has one
RECURSIVE NextSiblingOrUncle(_)
NextSiblingOrUncle(n) ==
  IF parent[n] = None THEN None
  ELSE LET sibs == children[parent[n]]
           i == IndexOf(sibs, n)
       IN IF i < Len(sibs) THEN sibs[i + 1]
          ELSE NextSiblingOrUncle(parent[n])

NextNode(n) ==
  IF children[n] # <<>> THEN children[n][1] ELSE NextSiblingOrUncle(n)

RECURSIVE GetAllChildrenSeq(_, _)
get_all_children(p) == GetAllChildrenSeq(p, children[p])
GetAllChildrenSeq(p, cs) ==
  IF cs = <<>> THEN <<>>
  ELSE <<cs[1]>> \o GetAllChildrenSeq(cs[1], children[cs[1]])
       \o GetAllChildrenSeq(p, Tail(cs))

RECURSIVE IsAncestor(_, _)
IsAncestor(a, n) ==
  /\ parent[n] # None
  /\ (parent[n] = a \/ IsAncestor(a, parent[n]))

\* ------------------------------------------------------------------------
\* Hit test and handlers
\* ------------------------------------------------------------------------
\* bounds[e] = <<x, width>>; the position lies inside the bounds
check_mouse_condition(p, e) ==
  /\ bounds[e][1] <= p
  /\ p < bounds[e][1] + bounds[e][2]

\* a handler is identified by the event kind it is registered for
handles_event(h, ev) == h = ev.kind

HasHandler(n, ev) ==
  /\ n \in DOMAIN handler_map
  /\ \E i \in 1..Len(handler_map[n]) : handles_event(handler_map[n][i], ev)

\* handlers.iter().any(handle_event): the handlers are called in order up to
\* and including the first that reports handled; res[i] is what handler i
\* returns when called (a handler for another kind returns false)
AnyCalls(n, hs, ev, res) ==
  LET stop == IF \E i \in 1..Len(hs) : res[i]
              THEN CHOOSE i \in 1..Len(hs) :
                     res[i] /\ \A j \in 1..(i - 1) : ~res[j]
              ELSE Len(hs)
  IN [i \in 1..stop |-> [entity |-> n, handler |-> i, result |-> res[i],
                       kind |-> ev.kind, strategy |-> ev.strategy,
                       source |-> ev.source]]

HandlerResults(hs, ev) ==
  {r \in [1..Len(hs) -> BOOLEAN] :
     \A i \in 1..Len(hs) : ~handles_event(hs[i], ev) => ~r[i]}

\* ------------------------------------------------------------------------
\* process_bottom_up_event
\* ------------------------------------------------------------------------
\* a key up event leaves the keyboard state as it is
KeyboardStateDownOnly(ev) ==
  IF ev.kind = "KeyDown" THEN keyboard_state \cup {ev.key}
  ELSE keyboard_state

\* global key handling: set_key_state(key, true) for a key down event,
\* set_key_state(key, false) for a key up event
KeyboardState(ev) ==
  IF ev.kind = "KeyDown" THEN keyboard_state \cup {ev.key}
  ELSE IF ev.kind = "KeyUp" THEN keyboard_state \ {ev.key}
  ELSE keyboard_state

\* locals initialised, global key handling
BeginBottomUp ==
  /\ pc = "bottom_up"
  /\ matching_nodes' = <<>>
  /\ bu_update' = FALSE
  /\ current_node' = event.source
  /\ disabled_parents' = <<>>
  /\ keyboard_state' = KeyboardState(event)
  /\ unknown_event' = TRUE
  /\ clipped_parent' = <<>>
  /\ handled' = FALSE
  /\ node_index' = 0
  /\ pc' = "walk"
  /\ UNCHANGED <<providerVars, traceVars, entities, entity_counter, parent,
                 children, enabled, visibility, clip, bounds, dirty_widgets,
                 event, update, remove_widget_list, dirty_index, keys,
                 remove_queue, push_budget, remove_budget, mark_budget, quit>>
  /\ UNCHANGED extVars

\* the disabled stack when a node below a disabled parent is not pushed
DisabledParentsNoPush(n) ==
  LET dp1 == IF disabled_parents # <<>> /\ parent[n] # None
             THEN IF Contains(disabled_parents, parent[n])
                  THEN disabled_parents
                  ELSE <<>>
             ELSE disabled_parents
      dp2 == IF enabled[n] = "false" THEN Append(dp1, n) ELSE dp1
  IN IF visibility[n] \notin {"Visible", "absent"}
     THEN Append(dp2, n) ELSE dp2

DisabledParents(n) ==
  LET dp1 == IF disabled_parents # <<>> /\ parent[n] # None
             THEN IF Contains(disabled_parents, parent[n])
                  THEN Append(disabled_parents, n)
                  ELSE <<>>
             ELSE disabled_parents
      dp2 == IF enabled[n] = "false" THEN Append(dp1, n) ELSE dp1
  IN IF visibility[n] \notin {"Visible", "absent"}
     THEN Append(dp2, n) ELSE dp2

ClippedParentBefore(n) ==
  IF clipped_parent # <<>>
  THEN IF parent[n] = Last(clipped_parent)
       THEN Append(clipped_parent, n)
       ELSE Front(clipped_parent)
  ELSE clipped_parent

ClippedParentAfter(n, cp) ==
  IF clip[n] = "true" THEN <<n>> ELSE cp

\* the position the hit test of this event kind uses
EventPosition(ev) ==
  IF ev.kind = "Scroll" THEN mouse_position ELSE ev.position

\* the outermost clip check: FALSE when the clip stack's first entry does
\* not contain the position
ClipAllows(cp, p) == cp = <<>> \/ check_mouse_condition(p, cp[1])

\* mouse down asks for a handler as click and mouse move do
MatchesHandlerRequired(n, ev, cp, unknown) ==
  LET p == EventPosition(ev)
      has_handler == HasHandler(n, ev)
  IN CASE ev.kind \in PointerKinds \ {"Scroll"} ->
            check_mouse_condition(p, n) /\ ClipAllows(cp, p) /\ has_handler
       [] ev.kind = "Scroll" ->
            check_mouse_condition(p, n) /\ has_handler
       [] OTHER -> unknown /\ enabled[n] = "true" /\ has_handler

\* whether the visited node is pushed to matching_nodes
Matches(n, ev, cp, unknown) ==
  LET p == EventPosition(ev)
      has_handler == HasHandler(n, ev)
  IN CASE ev.kind = "Scroll" ->
            check_mouse_condition(p, n) /\ has_handler
       [] ev.kind = "Click" ->
            check_mouse_condition(p, n) /\ ClipAllows(cp, p) /\ has_handler
       [] ev.kind = "MouseDown" ->
            check_mouse_condition(p, n) /\ (ClipAllows(cp, p) \/ ~has_handler)
       [] ev.kind = "MouseMove" ->
            check_mouse_condition(p, n) /\ ClipAllows(cp, p) /\ has_handler
       [] OTHER -> unknown /\ enabled[n] = "true" /\ has_handler

\* one iteration of the walk loop
WalkStep ==
  /\ pc = "walk"
  /\ LET n == current_node
         dp == DisabledParents(n)
         cp == ClippedParentBefore(n)
         unknown == unknown_event /\ event.kind \notin PointerKinds
         next == NextNode(n)
     IN /\ disabled_parents' = dp
        /\ IF dp = <<>> /\ unknown /\ enabled[n] = "absent"
           THEN \* WidgetContainer::get panics
                /\ pc' = "panicked"
                /\ UNCHANGED <<clipped_parent, matching_nodes, unknown_event,
                               current_node, node_index>>
           ELSE /\ IF dp = <<>>
                   THEN /\ matching_nodes' =
                             IF Matches(n, event, cp, unknown)
                             THEN Append(matching_nodes, n)
                             ELSE matching_nodes
                        /\ unknown_event' = unknown
                        /\ clipped_parent' = ClippedParentAfter(n, cp)
                   ELSE UNCHANGED <<matching_nodes, unknown_event,
                                    clipped_parent>>
                /\ IF next # None
                   THEN /\ current_node' = next
                        /\ UNCHANGED <<pc, node_index>>
                   ELSE /\ pc' = "dispatch"
                        /\ node_index' = Len(matching_nodes')
                        /\ UNCHANGED current_node
  /\ UNCHANGED <<ecmVars, providerVars, traceVars, event, handled, bu_update,
                 update, remove_widget_list, dirty_index, keys, remove_queue,
                 push_budget, remove_budget, mark_budget, quit>>
  /\ UNCHANGED extVars

\* the candidates visited in collection order
DispatchNodeForward(i) == matching_nodes[Len(matching_nodes) + 1 - i]

\* the candidate the dispatch loop visits at position i, counted from the end
DispatchNode(i) == matching_nodes[i]

\* one iteration of the dispatch loop over matching_nodes.iter().rev()
DispatchStep ==
  /\ pc = "dispatch"
  /\ node_index >= 1
  /\ LET node == DispatchNode(node_index)
     IN IF node \in DOMAIN handler_map
        THEN \E res \in HandlerResults(handler_map[node], event) :
               LET cs == AnyCalls(node, handler_map[node], event, res)
                   h == \E i \in 1..Len(cs) : cs[i].result
               IN /\ calls' = calls \o cs
                  /\ handled' = h
                  /\ bu_update' = TRUE
                  /\ node_index' = IF h THEN 0 ELSE node_index - 1
        ELSE /\ UNCHANGED <<calls, handled, bu_update>>
             /\ node_index' = IF handled THEN 0 ELSE node_index - 1
  /\ UNCHANGED <<ecmVars, providerVars, runVars, event, current_node,
                 disabled_parents, clipped_parent, matching_nodes,
                 unknown_event, log, passes, last_updated, pass_len, key_log>>
  /\ UNCHANGED extVars

\* process_bottom_up_event returns its update flag to the drain loop
ReturnBottomUp ==
  /\ pc = "dispatch"
  /\ node_index = 0
  /\ pc' = "drain"
  /\ update' = (update \/ bu_update)
  /\ UNCHANGED <<ecmVars, providerVars, walkVars, traceVars,
                 remove_widget_list, dirty_index, keys, remove_queue,
                 push_budget, remove_budget, mark_budget, quit>>
  /\ UNCHANGED extVars

NextBottomUp == BeginBottomUp \/ WalkStep \/ DispatchStep \/ ReturnBottomUp

\* ------------------------------------------------------------------------
\* Initial states of a single process_bottom_up_event call
\* ------------------------------------------------------------------------
\* every tree over the entities in which a parent is created before its
\* children; children are ordered by creation
TreeParents ==
  {[e \in Entity |-> IF e \in Nodes \ {root} THEN f[e] ELSE None] :
     f \in {g \in [Nodes \ {root} -> Nodes] :
              \A e \in Nodes \ {root} : g[e] < e}}

ChildrenOf(p) == [e \in Entity |-> SortedSeq({c \in Nodes : p[c] = e})]

\* subsets of S with at most k elements
SubsetsUpTo(S, k) == {T \in SUBSET S : Cardinality(T) <= k}

\* the component values of a tree in which the entities of DOMAIN how are
\* disabled or not visible in the way how[e] says
OffKinds == {"disabled", "Hidden", "Collapsed"}
\* a widget may also lack the "enabled" or the "visibility" component
MissingKinds == {"no_enabled", "no_visibility"}
EnabledOf(how) ==
  [e \in Entity |->
     IF e \in DOMAIN how /\ how[e] = "disabled" THEN "false"
     ELSE IF e \in DOMAIN how /\ how[e] = "no_enabled" THEN "absent"
     ELSE "true"]
VisibilityOf(how) ==
  [e \in Entity |->
     IF e \in DOMAIN how /\ how[e] = "no_visibility" THEN "absent"
     ELSE IF e \in DOMAIN how /\ how[e] \notin {"disabled", "no_enabled"}
          THEN how[e] ELSE "Visible"]
ClipOf(cl) == [e \in Entity |-> IF e \in cl THEN "true" ELSE "false"]
\* a widget at the origin is one unit wide or spans the window
BoundsOf(narrow) ==
  [e \in Entity |-> IF e \in narrow THEN <<0, 1>> ELSE <<0, MaxPos + 1>>]

\* handler lists of an entity for an event of kind k: one handler, two
\* handlers, a handler for another kind only, or a handler behind another
OtherKind(k) == IF k = "Click" THEN "MouseDown" ELSE "Click"
HandlerLists(k) == {<<k>>, <<k, k>>, <<OtherKind(k)>>, <<OtherKind(k), k>>}
HandlerMaps(k, without, special) ==
  {[e \in Nodes \ without |-> IF e \in DOMAIN sl THEN sl[e] ELSE <<k>>] :
     sl \in [special \ without -> HandlerLists(k)]}

BottomUpEvent(k, p) ==
  [kind |-> k, strategy |-> "BottomUp", source |-> root, position |-> p,
   key |-> IF k \in KeyKinds THEN "a" ELSE "none"]

\* an option without a value, and an option holding v
NoValue == <<>>
Some(v) == <<v>>

\* no lookup was made yet
NoResult == [fn |-> "none", property |-> "", value |-> NoValue]

\* no flattened theme is under construction
NoLoader ==
  loader = [pc |-> "idle", stack |-> <<>>, map |-> <<>>, style_key |-> "",
            styles |-> <<>>]

\* no theme is loaded and no lookup was made
NoTheme ==
  /\ theme = [styles |-> <<>>, resources |-> <<>>]
  /\ selector = [style |-> "None", state |-> "None", dirty |-> TRUE]
  /\ result = NoResult

\* widget containers: not in use
NoWidgets ==
  widgets = [selectors |-> <<>>, props |-> <<>>, applied |-> <<>>, last |-> [op |-> "none", entity |-> 0, force |-> FALSE]]

\* text selection layout: not in use
NoLayout ==
  layout = <<>>

\* text behavior: not in use
NoBehavior ==
  behavior = <<>>

\* slider: not in use
NoSlider ==
  slider = <<>>

\* numeric box: not in use
NoNumericBox ==
  numeric_box = <<>>

\* nothing outside the event state system is in use
NoExt == NoTheme /\ NoLoader /\ NoWidgets /\ NoLayout /\ NoBehavior /\ NoSlider /\ NoNumericBox

\* one bottom-up event about to be processed on a tree whose widgets are
\* as one of hows says
InitBottomUpOn(kinds, hows, clips, narrows, nohandler, special) ==
  /\ entities = Nodes
  /\ entity_counter = MaxEntities
  /\ parent \in TreeParents
  /\ children = ChildrenOf(parent)
  /\ \E how \in hows :
       /\ enabled = EnabledOf(how)
       /\ visibility = VisibilityOf(how)
  /\ \E cl \in clips : clip = ClipOf(cl)
  /\ \E nr \in narrows : bounds = BoundsOf(nr)
  /\ dirty_widgets = <<>>
  /\ \E k \in kinds :
       /\ event = BottomUpEvent(k, MaxPos)
       /\ keyboard_state = IF k = "KeyUp" THEN {"a"} ELSE {}
       /\ \E wo \in nohandler : \E sp \in special :
            handler_map \in HandlerMaps(k, wo, sp)
  /\ states = {}
  /\ layouts = {}
  /\ render_objects = {}
  /\ event_queue = <<>>
  /\ first_run = FALSE
  /\ mouse_position = MaxPos
  /\ current_node = root
  /\ disabled_parents = <<>>
  /\ clipped_parent = <<>>
  /\ matching_nodes = <<>>
  /\ unknown_event = TRUE
  /\ handled = FALSE
  /\ node_index = 0
  /\ bu_update = FALSE
  /\ pc = "bottom_up"
  /\ update = FALSE
  /\ remove_widget_list = <<>>
  /\ dirty_index = 0
  /\ keys = <<>>
  /\ remove_queue = <<>>
  /\ push_budget = 0
  /\ remove_budget = 0
  /\ mark_budget = 0
  /\ quit = FALSE
  /\ calls = <<>>
  /\ log = [e \in Entity |-> <<>>]
  /\ passes = 0
  /\ last_updated = None
  /\ pass_len = 0
  /\ key_log = <<>>
  /\ NoExt

\* one bottom-up event about to be processed on a tree
InitBottomUp(kinds, offs, clips, narrows, nohandler, special) ==
  InitBottomUpOn(kinds, UNION {[off -> OffKinds] : off \in offs}, clips,
                 narrows, nohandler, special)

\* dispatch order: every kind, every handler arrangement, no suppression
InitDispatch ==
  InitBottomUp(BottomUpKinds, {{}}, {{}}, SubsetsUpTo(Nodes, 1),
               SubsetsUpTo(Nodes, 1), SubsetsUpTo(Nodes, 1))
SpecDispatch == InitDispatch /\ [][NextBottomUp]_vars

\* disabled or invisible subtrees
InitDisabled ==
  InitBottomUp(BottomUpKinds, SubsetsUpTo(Nodes, MaxOff),
               SubsetsUpTo(Nodes, MaxClip), {{}}, {{}}, {{}})
SpecDisabled == InitDisabled /\ [][NextBottomUp]_vars

\* clipping ancestors
InitClip ==
  InitBottomUp({"Click"}, SubsetsUpTo(Nodes, MaxOff),
               SubsetsUpTo(Nodes, MaxClip), SUBSET Nodes, {{}}, {{}})
SpecClip == InitClip /\ [][NextBottomUp]_vars

\* pointer events: clipping nodes, narrow bounds, a node without handlers,
\* entity 2 with a handler for another kind
InitPointer ==
  InitBottomUp(PointerKinds, {{}}, SubsetsUpTo(Nodes, MaxClip),
               SubsetsUpTo(Nodes, 1), SubsetsUpTo(Nodes, 1), {{}, {2}})
SpecPointer == InitPointer /\ [][NextBottomUp]_vars

\* soft misses: a widget without the "enabled" or the "visibility"
\* component, a widget without an entry in the handler map
InitSoftMiss ==
  InitBottomUpOn(BottomUpKinds,
                 UNION {[off -> MissingKinds] : off \in SubsetsUpTo(Nodes, 1)},
                 {{}}, {{}}, SubsetsUpTo(Nodes, 1), {{}})
SpecSoftMiss == InitSoftMiss /\ [][NextBottomUp]_vars

\* ------------------------------------------------------------------------
\* Properties of process_bottom_up_event
\* ------------------------------------------------------------------------
CandidateIndex(e) == IndexOf(matching_nodes, e)
Called(e) == \E i \in 1..Len(calls) : calls[i].entity = e
Off(e) == enabled[e] = "false" \/ visibility[e] \notin {"Visible", "absent"}

\* C1: the candidates are dispatched in reverse collection order, a nested
\* candidate before the candidates that contain it; every handler call but
\* the last returned not handled, and when process_bottom_up_event has
\* returned a candidate's handlers were called exactly if no handler of a
\* candidate collected after it reported handled.
C1_BottomUpOrder ==
  /\ \A i \in 1..Len(calls) : Contains(matching_nodes, calls[i].entity)
  /\ \A i, j \in 1..Len(calls) :
       i < j => CandidateIndex(calls[i].entity) >= CandidateIndex(calls[j].entity)
  /\ \A i \in 1..(Len(calls) - 1) : ~calls[i].result
  /\ \A i, j \in 1..Len(matching_nodes) :
       IsAncestor(matching_nodes[i], matching_nodes[j]) => i < j
  /\ pc = "drain" =>
       \A k \in 1..Len(matching_nodes) :
         matching_nodes[k] \in DOMAIN handler_map =>
           (Called(matching_nodes[k]) <=>
              \A i \in 1..Len(calls) :
                CandidateIndex(calls[i].entity) > k => ~calls[i].result)

\* a click inside nested W1 and W2: W2 was called, returned not handled,
\* and W1 was called after it
C1_Witness ==
  /\ pc = "drain"
  /\ event.kind = "Click"
  /\ \E i, j \in 1..Len(calls) :
       /\ i < j
       /\ IsAncestor(calls[j].entity, calls[i].entity)
       /\ ~calls[i].result

\* C2: no descendant of a disabled or not visible node is a candidate or
\* has a handler called, in a walk that starts at the root.
C2_DisabledSubtree ==
  \A d \in Range(matching_nodes) \cup {calls[i].entity : i \in 1..Len(calls)} :
    \A a \in Nodes : IsAncestor(a, d) => ~Off(a)

\* the walk is over, another node matched, and an enabled, visible node with
\* a handler and the position inside its bounds lies two levels below a
\* disabled or not visible node
C2_Witness ==
  /\ pc = "drain"
  /\ matching_nodes # <<>>
  /\ \E w \in Nodes, d \in Nodes :
       /\ Off(w)
       /\ IsAncestor(w, d)
       /\ parent[d] # w
       /\ ~Off(d)
       /\ HasHandler(d, event)
       /\ check_mouse_condition(EventPosition(event), d)

\* C3: a click matches a descendant of a clip=true node only if the
\* position lies inside the clipping node's bounds.
C3_ClipContainment ==
  event.kind = "Click" =>
    \A d \in Range(matching_nodes) :
      \A c \in Nodes :
        (IsAncestor(c, d) /\ clip[c] = "true")
          => check_mouse_condition(event.position, c)

\* ------------------------------------------------------------------------
\* run_with_context: the drain loop
\* ------------------------------------------------------------------------
\* the callbacks of entity e followed by op; in a call whose states push
\* without limit the history of an entity is kept up to MaxLog callbacks
LogEntry(op, e) ==
  IF push_budget = Unlimited /\ Len(log[e]) >= MaxLog
  THEN log
  ELSE [log EXCEPT ![e] = Append(@, op)]

\* the Quit event is dropped and the drain goes on
AfterQuitDrain == "drain"

\* where run_with_context continues after a Quit was dequeued
AfterQuit == "returned"

\* SystemEvent::Quit: return at once
DequeueQuit ==
  /\ pc = "drain"
  /\ event_queue # <<>>
  /\ Head(event_queue).kind = "Quit"
  /\ event_queue' = Tail(event_queue)
  /\ quit' = TRUE
  /\ pc' = AfterQuit
  /\ UNCHANGED <<ecmVars, walkVars, traceVars, handler_map, states, layouts,
                 render_objects, first_run, mouse_position, update,
                 remove_widget_list, dirty_index, keys, remove_queue,
                 push_budget, remove_budget, mark_budget>>
  /\ UNCHANGED extVars

\* direct events are not skipped on the first run
SkipDirectNever == FALSE

\* process_direct skips every direct event on the first run
SkipDirect == first_run

\* the handlers of the source's parent are called
DirectTargetParent(ev) ==
  IF parent[ev.source] # None THEN parent[ev.source] ELSE ev.source

\* the entity whose handlers process_direct calls
DirectTarget(ev) == ev.source

\* EventStrategy::Direct: process_direct
DequeueDirect ==
  /\ pc = "drain"
  /\ event_queue # <<>>
  /\ Head(event_queue).kind # "Quit"
  /\ Head(event_queue).strategy = "Direct"
  /\ LET ev == Head(event_queue)
         target == DirectTarget(ev)
     IN /\ event_queue' = Tail(event_queue)
        /\ event' = ev
        /\ IF ~SkipDirect /\ target \in DOMAIN handler_map
           THEN \E res \in HandlerResults(handler_map[target], ev) :
                  /\ calls' = AnyCalls(target, handler_map[target], ev, res)
                  /\ update' = TRUE
           ELSE /\ calls' = <<>>
                /\ UNCHANGED update
  /\ UNCHANGED <<ecmVars, handler_map, states, layouts, render_objects,
                 first_run, mouse_position, current_node, disabled_parents,
                 clipped_parent, matching_nodes, unknown_event, handled,
                 node_index, bu_update, pc, remove_widget_list, dirty_index,
                 keys, remove_queue, push_budget, remove_budget, mark_budget, quit, log,
                 passes, last_updated, pass_len, key_log>>
  /\ UNCHANGED extVars

\* EventStrategy::BottomUp: process_bottom_up_event is entered
DequeueBottomUp ==
  /\ pc = "drain"
  /\ event_queue # <<>>
  /\ Head(event_queue).kind # "Quit"
  /\ Head(event_queue).strategy = "BottomUp"
  /\ event' = Head(event_queue)
  /\ event_queue' = Tail(event_queue)
  /\ calls' = <<>>
  /\ key_log' = IF Head(event_queue).kind \in KeyKinds
                THEN Append(key_log, Head(event_queue))
                ELSE key_log
  /\ pc' = "bottom_up"
  /\ UNCHANGED <<ecmVars, handler_map, states, layouts, render_objects,
                 first_run, mouse_position, current_node, disabled_parents,
                 clipped_parent, matching_nodes, unknown_event, handled,
                 node_index, bu_update, update, remove_widget_list,
                 dirty_index, keys, remove_queue, push_budget, remove_budget,
                 mark_budget, quit, log, passes, last_updated, pass_len>>
  /\ UNCHANGED extVars

\* the queue is drained: the dirty pass starts
BeginStates ==
  /\ pc = "drain"
  /\ event_queue = <<>>
  /\ remove_widget_list' = <<>>
  /\ dirty_index' = 0
  /\ pc' = "states"
  /\ passes' = IF push_budget = Unlimited /\ passes >= MaxLog
                THEN passes ELSE passes + 1
  /\ pass_len' = Len(dirty_widgets)
  /\ UNCHANGED <<ecmVars, providerVars, walkVars, update, keys, remove_queue,
                 push_budget, remove_budget, mark_budget, quit, calls, log,
                 last_updated, key_log>>
  /\ UNCHANGED extVars

\* ------------------------------------------------------------------------
\* run_with_context: the dirty pass
\* ------------------------------------------------------------------------
\* the tick loop is left after one pass
QueueDrainedAlways == TRUE

\* the exit test of the tick loop
QueueDrained == event_queue = <<>>

\* the length of the list as it was when the pass began
DirtyLenAtStart == pass_len

\* the length of dirty_widgets, read again before every step
DirtyLen == Len(dirty_widgets)

\* the end of dirty_widgets is reached: leave the tick loop or drain again
EndPass ==
  /\ pc = "states"
  /\ dirty_index >= DirtyLen
  /\ pc' = IF QueueDrained THEN "returned" ELSE "drain"
  /\ UNCHANGED <<ecmVars, providerVars, walkVars, traceVars, update,
                 remove_widget_list, dirty_index, keys, remove_queue,
                 push_budget, remove_budget, mark_budget, quit>>
  /\ UNCHANGED extVars

\* no dirty entity is skipped
SkipNever(w) == FALSE

\* skip is set when the state table has no entry for the widget
Skip(w) == w \notin states

\* a dirty entity without a state is skipped
SkipWidget ==
  /\ pc = "states"
  /\ dirty_index < DirtyLen
  /\ Skip(dirty_widgets[dirty_index + 1])
  /\ dirty_index' = dirty_index + 1
  /\ UNCHANGED <<ecmVars, providerVars, walkVars, traceVars, pc, update,
                 remove_widget_list, keys, remove_queue, push_budget,
                 remove_budget, mark_budget, quit>>
  /\ UNCHANGED extVars

\* what a state's update may do through its context: push events, request
\* removals, build a child widget with a state of its own
DirectEvent(e) ==
  [kind |-> "Changed", strategy |-> "Direct", source |-> e,
   position |-> 0, key |-> "none"]
QuitEvent ==
  [kind |-> "Quit", strategy |-> "Direct", source |-> root,
   position |-> 0, key |-> "none"]
PushChoices(w) ==
  {<<>>} \cup (IF push_budget > 0 \/ push_budget = Unlimited
               THEN {<<DirectEvent(w)>>} ELSE {})
\* the entities a widget asks to remove: itself, its first child, its last
\* child
RemoveTargets(w) ==
  {w} \cup (IF children[w] = <<>> THEN {}
            ELSE {Head(children[w]), Last(children[w])})
\* the removal requests of one update, each entity requested once
RemoveChoices(w) ==
  {rs \in UNION {[1..n -> RemoveTargets(w)] : n \in 0..remove_budget} :
     \A i, j \in 1..Len(rs) : i # j => rs[i] # rs[j]}
\* the entities an update marks dirty: the root or the child it has built
MarkChoices(ks) ==
  {<<>>} \cup (IF mark_budget > 0
               THEN {<<root>>} \cup {<<ks[i]>> : i \in 1..Len(ks)}
               ELSE {})

\* the new state keys are not taken from the context
NewStatesKeysDropped(f) == <<>>

\* ctx.new_states_keys() after an update that built the widget f
NewStatesKeys(f) == <<f>>

\* state.update of the dirty widget, then the new state keys and the
\* removal requests are taken from the context
Update ==
  /\ pc = "states"
  /\ dirty_index < DirtyLen
  /\ LET widget == dirty_widgets[dirty_index + 1]
     IN /\ ~Skip(widget)
        /\ IF widget \in states
           THEN /\ log' = LogEntry("update", widget)
                /\ last_updated' = widget
           ELSE UNCHANGED <<log, last_updated>>
        /\ \E evs \in PushChoices(widget) :
             /\ event_queue' = event_queue \o evs
             /\ push_budget' = IF push_budget = Unlimited THEN Unlimited
                               ELSE push_budget - Len(evs)
        /\ \E rs \in RemoveChoices(widget) :
             /\ remove_widget_list' = remove_widget_list \o rs
             /\ remove_budget' = remove_budget - Len(rs)
        /\ \E create \in BOOLEAN :
             IF create /\ entity_counter < MaxEntities + MaxCreate
             THEN LET f == entity_counter + 1
                  IN /\ entity_counter' = f
                     /\ entities' = entities \cup {f}
                     /\ parent' = [parent EXCEPT ![f] = widget]
                     /\ children' = [children EXCEPT ![widget] = Append(@, f)]
                     /\ states' = states \cup {f}
                     /\ layouts' = layouts \cup {f}
                     /\ render_objects' = render_objects \cup {f}
                     /\ keys' = NewStatesKeys(f)
                     /\ \E ms \in MarkChoices(<<f>>) :
                          /\ dirty_widgets' = dirty_widgets \o ms
                          /\ mark_budget' = mark_budget - Len(ms)
             ELSE /\ keys' = <<>>
                  /\ \E ms \in MarkChoices(<<>>) :
                       /\ dirty_widgets' = dirty_widgets \o ms
                       /\ mark_budget' = mark_budget - Len(ms)
                  /\ UNCHANGED <<entity_counter, entities, parent, children,
                                 states, layouts, render_objects>>
  /\ pc' = "init"
  /\ UNCHANGED <<walkVars, enabled, visibility, clip, bounds, keyboard_state,
                 handler_map, first_run, mouse_position,
                 update, dirty_index, remove_queue, quit, calls, passes,
                 pass_len, key_log>>
  /\ UNCHANGED extVars

\* state.init of the next new state key
InitKey ==
  /\ pc = "init"
  /\ keys # <<>>
  /\ log' = IF Head(keys) \in states
            THEN LogEntry("init", Head(keys))
            ELSE log
  /\ keys' = Tail(keys)
  /\ UNCHANGED <<ecmVars, providerVars, walkVars, pc, update,
                 remove_widget_list, dirty_index, remove_queue, push_budget,
                 remove_budget, mark_budget, quit, calls, passes, last_updated, pass_len, key_log>>
  /\ UNCHANGED extVars

\* removal does not wait for the new states
KeysInitialisedSkipped == TRUE

\* the new states are initialised before anything is removed
KeysInitialised == keys = <<>>

\* the descendants in collection order, parents first
RemovalOrderForward(rw) == get_all_children(rw) \o <<rw>>

\* the entities removed for the request rw: its descendants in reverse
\* order of collection, then rw itself
RemovalOrder(rw) == Reverse(get_all_children(rw)) \o <<rw>>

\* for remove_widget in remove_widget_list.pop()
PopRemove ==
  /\ pc = "init"
  /\ KeysInitialised
  /\ IF remove_widget_list = <<>>
     THEN /\ dirty_index' = dirty_index + 1
          /\ pc' = "states"
          /\ UNCHANGED <<remove_widget_list, remove_queue>>
     ELSE LET rw == Last(remove_widget_list)
          IN /\ remove_widget_list' = Front(remove_widget_list)
             /\ UNCHANGED dirty_index
             /\ IF rw \in entities
                THEN /\ remove_queue' = RemovalOrder(rw)
                     /\ pc' = "remove"
                ELSE \* the entity store has no entry for rw
                     /\ pc' = "panicked"
                     /\ UNCHANGED remove_queue
  /\ UNCHANGED <<ecmVars, providerVars, walkVars, traceVars, update, keys,
                 push_budget, remove_budget, mark_budget, quit>>
  /\ UNCHANGED extVars

\* the state stays in the table
StatesKept(e) == states

\* states.remove(entity)
StatesWithout(e) == states \ {e}

\* the entity store without e
RemoveFromSeq(sq, e) == SelectSeq(sq, LAMBDA x : x # e)
RestrictMap(f, S) == [x \in DOMAIN f \cap S |-> f[x]]

\* remove_widget(entity): cleanup, then every registration is purged
RemoveWidget ==
  /\ pc = "remove"
  /\ remove_queue # <<>>
  /\ LET e == Head(remove_queue)
     IN /\ log' = [log EXCEPT ![e] =
                       @ \o (IF e \in states THEN <<"cleanup">> ELSE <<>>)
                         \o <<"purge">>]
        /\ states' = StatesWithout(e)
        /\ entities' = entities \ {e}
        /\ children' = [x \in Entity |->
                          IF x = e THEN <<>> ELSE RemoveFromSeq(children[x], e)]
        /\ parent' = [parent EXCEPT ![e] = None]
        /\ layouts' = layouts \ {e}
        /\ render_objects' = render_objects \ {e}
        /\ handler_map' = RestrictMap(handler_map, Entity \ {e})
        /\ remove_queue' = Tail(remove_queue)
        /\ IF Tail(remove_queue) = <<>>
           THEN /\ pc' = "states"
                /\ dirty_index' = dirty_index + 1
           ELSE UNCHANGED <<pc, dirty_index>>
  /\ UNCHANGED <<walkVars, entity_counter, enabled, visibility, clip, bounds,
                 keyboard_state, dirty_widgets, event_queue, first_run,
                 mouse_position, update, remove_widget_list, keys,
                 push_budget, remove_budget, mark_budget, quit, calls, passes,
                 last_updated, pass_len, key_log>>
  /\ UNCHANGED extVars

Next ==
  \/ DequeueQuit \/ DequeueDirect \/ DequeueBottomUp
  \/ BeginBottomUp \/ WalkStep \/ DispatchStep \/ ReturnBottomUp
  \/ BeginStates \/ EndPass \/ SkipWidget \/ Update \/ InitKey
  \/ PopRemove \/ RemoveWidget

\* ------------------------------------------------------------------------
\* Initial states of a run_with_context call
\* ------------------------------------------------------------------------
SeqsUpTo(S, n) == UNION {[1..k -> S] : k \in 0..n}

QueueEvents == {QuitEvent, BottomUpEvent("Click", MaxPos), DirectEvent(2)}

\* trees in which entity 2 has a child: a chain below entity 2, the last
\* entity below it or below the root
RunTrees ==
  {p \in TreeParents :
     /\ \A e \in Nodes \ {root, 2, MaxEntities} : p[e] = e - 1
     /\ p[MaxEntities] \in {root, MaxEntities - 1}}

\* the entities that have a state when the call starts
StatefulAtStart == Nodes \ {MaxEntities}

\* the state when run_with_context is entered
InitSystem(queues, first_runs, pushes, marks, removes, hm) ==
  /\ entities = Nodes
  /\ entity_counter = MaxEntities
  /\ parent \in RunTrees
  /\ children = ChildrenOf(parent)
  /\ enabled = [e \in Entity |-> "true"]
  /\ visibility = [e \in Entity |-> "Visible"]
  /\ clip = [e \in Entity |-> "false"]
  /\ bounds = BoundsOf({})
  /\ keyboard_state = {}
  /\ dirty_widgets \in SeqsUpTo({2, MaxEntities}, MaxDirty)
  /\ handler_map = hm
  /\ states = StatefulAtStart
  /\ layouts = Nodes
  /\ render_objects = Nodes
  /\ event_queue \in queues
  /\ first_run \in first_runs
  /\ mouse_position = MaxPos
  /\ event = BottomUpEvent("Click", MaxPos)
  /\ current_node = root
  /\ disabled_parents = <<>>
  /\ clipped_parent = <<>>
  /\ matching_nodes = <<>>
  /\ unknown_event = TRUE
  /\ handled = FALSE
  /\ node_index = 0
  /\ bu_update = FALSE
  /\ pc = "drain"
  /\ update = FALSE
  /\ remove_widget_list = <<>>
  /\ dirty_index = 0
  /\ keys = <<>>
  /\ remove_queue = <<>>
  /\ push_budget = pushes
  /\ remove_budget = removes
  /\ mark_budget = marks
  /\ quit = FALSE
  /\ calls = <<>>
  /\ log = [e \in Entity |-> <<>>]
  /\ passes = 0
  /\ last_updated = None
  /\ pass_len = 0
  /\ key_log = <<>>

\* a call of run_with_context; no theme lookup is in progress
InitRun(queues, first_runs, pushes, marks, removes, hm) ==
  InitSystem(queues, first_runs, pushes, marks, removes, hm) /\ NoExt

\* click and change handlers on every entity but the last
RunHandlers ==
  [e \in Nodes \ {MaxEntities} |->
     IF e \in {2, 3} THEN <<"Click", "Changed">> ELSE <<"Changed">>]

\* a call with queued events, on the first run or later; the states push
\* events and mark nothing dirty
Init ==
  InitRun(SeqsUpTo(QueueEvents, MaxQueue), BOOLEAN, MaxPush, 0, MaxRemove,
          RunHandlers)

Spec == Init /\ [][Next]_vars

\* a call with an empty queue: one dirty pass whose updates mark further
\* widgets dirty
InitPass == InitRun({<<>>}, {FALSE}, 0, MaxMark, MaxRemove, RunHandlers)

NextPass ==
  \/ BeginStates \/ EndPass \/ SkipWidget \/ Update \/ InitKey
  \/ PopRemove \/ RemoveWidget

SpecPass == InitPass /\ [][NextPass]_vars

\* a call whose states push an event in any update, without limit; the
\* call runs on until it returns
InitLive ==
  InitRun(SeqsUpTo(QueueEvents, MaxQueue), {FALSE}, Unlimited, 0, 1,
          RunHandlers)

SpecLive == InitLive /\ [][Next]_vars /\ WF_vars(Next)

\* a call with key events in the queue; entities 2 and 3 have key handlers
KeyNames == {"a", "b"}
KeyEvent(k, key) ==
  [kind |-> k, strategy |-> "BottomUp", source |-> root, position |-> 0,
   key |-> key]
KeyEvents == {KeyEvent(k, key) : k \in KeyKinds, key \in KeyNames}
KeyHandlers ==
  [e \in {2, 3} |-> IF e = 2 THEN <<"KeyDown", "KeyUp">> ELSE <<"KeyDown">>]
InitKeys ==
  /\ InitRun(SeqsUpTo(KeyEvents, MaxQueue + 1), {FALSE}, 0, 0, 0,
             KeyHandlers)
  /\ dirty_widgets = <<>>

NextKeys == DequeueBottomUp \/ NextBottomUp

SpecKeys == InitKeys /\ [][NextKeys]_vars

\* ------------------------------------------------------------------------
\* Properties of run_with_context
\* ------------------------------------------------------------------------
\* how often entity e received the callback op
CountOf(op, e) ==
  Cardinality({i \in 1..Len(log[e]) : log[e][i] = op})
RECURSIVE CountUpTo(_, _)
CountUpTo(op, n) ==
  IF n = 0 THEN 0 ELSE CountOf(op, n) + CountUpTo(op, n - 1)
\* how often the callback op was made in the call
Count(op) == CountUpTo(op, MaxEntities + MaxCreate)
Purged == {e \in Entity : CountOf("purge", e) > 0}
Removes == entities' # entities /\ entities' \subseteq entities

\* C4: when run_with_context has returned without a Quit the event queue is
\* empty, and when a state update pushed an event the dirty pass ran again
\* in the same call.
C4_QueueEmptyOnReturn ==
  (pc = "returned" /\ ~quit) =>
    /\ event_queue = <<>>
    /\ push_budget < MaxPush => passes >= 2

\* returned without Quit after an update pushed an event
C4_Witness ==
  /\ pc = "returned"
  /\ ~quit
  /\ push_budget < MaxPush
  /\ Count("update") >= 2

\* C5: once Quit is dequeued the call has returned: the events behind it
\* stay in the queue, no handler is called and no state update, init,
\* cleanup or removal happens.
C5_QuitReturns ==
  [][quit' => /\ pc' = "returned"
              /\ ~quit => event_queue' = Tail(event_queue)
              /\ quit => UNCHANGED event_queue
              /\ UNCHANGED <<calls, log, passes, entities, states, layouts,
                             render_objects, handler_map, dirty_index>>]_vars

\* Quit was dequeued with an event behind it and a dirty widget with a state
C5_Witness ==
  /\ quit
  /\ pc = "returned"
  /\ event_queue # <<>>
  /\ \E i \in 1..Len(dirty_widgets) : dirty_widgets[i] \in states

C7_ChildrenBeforeParent ==
  /\ \A e \in entities : parent[e] # None => parent[e] \in entities
  /\ pc = "remove" =>
       LET q == remove_queue
           X == Last(q)
       IN /\ \A i \in 1..Len(q) :
               /\ q[i] \in entities
               /\ q[i] # X =>
                    /\ IsAncestor(X, q[i])
                    /\ \E j \in (i + 1)..Len(q) : q[j] = parent[q[i]]
          /\ \A e \in entities : IsAncestor(X, e) => Contains(q, e)

\* only the target is left to remove, after two of its descendants were
\* removed
C7_Witness ==
  /\ pc = "remove"
  /\ Len(remove_queue) = 1
  /\ Count("purge") >= 2
  /\ Count("update") = 1
  /\ remove_widget_list = <<>>
  /\ MaxRemove - remove_budget = 1

\* the entities that had a state at some time
HadState(e) == e \in StatefulAtStart \/ e > MaxEntities

\* C8: a removed entity had its cleanup called once, right before the
\* purge, is absent from every table, and is not updated or initialised
\* afterwards.
C8_RemovedIsGone ==
  \A X \in Purged :
    /\ X \notin states
    /\ X \notin layouts
    /\ X \notin render_objects
    /\ X \notin DOMAIN handler_map
    /\ X \notin entities
    /\ CountOf("purge", X) = 1
    /\ CountOf("cleanup", X) = (IF HadState(X) THEN 1 ELSE 0)
    /\ Last(log[X]) = "purge"
    /\ HadState(X) => /\ Len(log[X]) >= 2
                      /\ log[X][Len(log[X]) - 1] = "cleanup"

\* the call returned after a widget with a state that is listed twice in
\* dirty_widgets was updated once and removed in its first step
C8_Witness ==
  /\ pc = "returned"
  /\ Len(dirty_widgets) >= 2
  /\ dirty_widgets[1] = dirty_widgets[2]
  /\ dirty_widgets[1] \in Purged
  /\ HadState(dirty_widgets[1])
  /\ CountOf("update", dirty_widgets[1]) = 1
  /\ passes = 1

\* C9: on the first run no handler is called for a direct event.
C9_FirstRunNoDirect ==
  first_run => \A i \in 1..Len(calls) : calls[i].strategy # "Direct"

\* on the first run a direct event whose source has handlers was processed
C9_Witness ==
  /\ first_run
  /\ event.strategy = "Direct"
  /\ event.source \in DOMAIN handler_map

\* C10: a direct event calls handlers of its source entity only, and
\* processing it walks no tree.
C10_DirectOnlySource ==
  /\ [](\A i \in 1..Len(calls) :
          calls[i].strategy = "Direct" =>
            ~first_run /\ calls[i].entity = calls[i].source)
  /\ [][(/\ pc = "drain"
         /\ event_queue # <<>>
         /\ Head(event_queue).kind # "Quit"
         /\ Head(event_queue).strategy = "Direct")
          => (/\ pc' = "drain"
              /\ UNCHANGED <<current_node, disabled_parents, clipped_parent,
                             matching_nodes, unknown_event, node_index>>)]_vars

\* a direct event was delivered to a source whose parent and child have
\* handlers too
C10_Witness ==
  /\ ~first_run
  /\ \E i \in 1..Len(calls) :
       /\ calls[i].strategy = "Direct"
       /\ parent[calls[i].source] \in DOMAIN handler_map
       /\ \E c \in DOMAIN handler_map : parent[c] = calls[i].source

\* ------------------------------------------------------------------------
\* Properties of the dirty pass
\* ------------------------------------------------------------------------
\* the entry of dirty_widgets the pass is at
CurrentEntry == dirty_widgets[dirty_index + 1]
Created == (MaxEntities + 1)..entity_counter

\* C11: the pass visits dirty_widgets in increasing index order against the
\* current length of the list: the index moves one entry at a time, an entry
\* with a state is updated when the pass is at it, the pass ends only at
\* the end of the list as it is then, and after a pass that returned every
\* entry that has a state, appended ones included, was updated.
C11_GrowingListVisited ==
  /\ [][dirty_index' # dirty_index =>
          \/ dirty_index' = dirty_index + 1
          \/ pc = "drain" /\ dirty_index' = 0]_vars
  /\ [][(pc = "states" /\ pc' \in {"returned", "drain"})
          => dirty_index = Len(dirty_widgets)]_vars
  /\ [][(pc = "states" /\ dirty_index < Len(dirty_widgets)
                       /\ CurrentEntry \in states)
          => /\ log'[CurrentEntry] = Append(log[CurrentEntry], "update")
             /\ dirty_index' = dirty_index]_vars
  /\ [][(pc \in {"init", "remove"} /\ dirty_index' = dirty_index + 1)
          => last_updated = CurrentEntry]_vars
  /\ [](pc = "returned" =>
          \A i \in 1..Len(dirty_widgets) :
            dirty_widgets[i] \in states
              => CountOf("update", dirty_widgets[i]) >= 1)

\* the pass returned after an update appended an entity with a state that
\* was not in the list, and the appended entity was updated
C11_Witness ==
  /\ pc = "returned"
  /\ passes = 1
  /\ Len(dirty_widgets) > pass_len
  /\ LET a == Last(dirty_widgets)
     IN /\ \A i \in 1..pass_len : dirty_widgets[i] # a
        /\ a \in states
        /\ CountOf("update", a) = 1

\* C12: a dirty entry without a state is skipped: the index moves to the
\* next entry in one step, no callback is made and nothing else changes.
C12_StatelessSkipped ==
  [][(pc = "states" /\ dirty_index < Len(dirty_widgets)
                   /\ CurrentEntry \notin states)
       => /\ pc' = "states"
          /\ dirty_index' = dirty_index + 1
          /\ UNCHANGED <<log, last_updated, ecmVars, providerVars,
                         remove_widget_list, keys, remove_queue>>]_vars

\* the first dirty entry had no state and received no callback, and the
\* entry behind it was updated
C12_Witness ==
  /\ Len(dirty_widgets) >= 2
  /\ dirty_widgets[1] \notin StatefulAtStart
  /\ log[dirty_widgets[1]] = <<>>
  /\ CountOf("update", dirty_widgets[2]) = 1
  /\ pc = "returned"

\* C13: a state built during an update is initialised in the step of that
\* update: between two dirty entries every built state has had its init
\* exactly once, while the keys are worked off the ones still to initialise
\* are in keys, and init is the first callback a built state receives.
C13_InitBeforeNextUpdate ==
  /\ \A e \in Created :
       /\ pc # "init" => CountOf("init", e) = 1
       /\ pc = "init" => \/ CountOf("init", e) = 1
                         \/ CountOf("init", e) = 0 /\ Contains(keys, e)
       /\ log[e] # <<>> => log[e][1] = "init"
  /\ keys # <<>> => pc = "init"

\* a state built during an update was marked dirty, initialised and then
\* updated in the same pass
C13_Witness ==
  \E e \in Created :
    /\ passes = 1
    /\ Contains(dirty_widgets, e)
    /\ log[e] = <<"init", "update">>

\* ------------------------------------------------------------------------
\* Properties of pointer matching
\* ------------------------------------------------------------------------
\* the walk step at current_node adds it to the candidates
Added == matching_nodes' = Append(matching_nodes, current_node)
\* the walk is at an enabled node for a pointer event of one of the kinds
Visiting(kinds) ==
  /\ pc = "walk"
  /\ event.kind \in kinds
  /\ DisabledParents(current_node) = <<>>
InBounds == check_mouse_condition(EventPosition(event), current_node)
ClipPasses ==
  ClipAllows(ClippedParentBefore(current_node), EventPosition(event))

\* C14: for scroll, click, mouse down and mouse move a node is added to the
\* candidates only if its bounds contain the position, the position passes
\* the clip check and the node has a handler for the event kind.
C14_PointerNeedsHandler ==
  [][(Visiting(PointerKinds) /\ matching_nodes' # matching_nodes)
       => /\ Added
          /\ InBounds
          /\ ClipPasses
          /\ HasHandler(current_node, event)]_vars

\* C15 as stated: scroll adds no node without a handler, while click and
\* mouse move add a node that lacks a handler when the position is inside
\* its bounds and fails the clip check.
C15_ClickMoveWithoutHandler ==
  /\ [][(Visiting({"Scroll"}) /\ matching_nodes' # matching_nodes)
          => HasHandler(current_node, event)]_vars
  /\ [][(Visiting({"Click", "MouseMove"}) /\ InBounds /\ ~ClipPasses
                                         /\ ~HasHandler(current_node, event))
          => Added]_vars

\* C15 amended: scroll, click and mouse move add no node without a handler;
\* mouse down adds every node without a handler whose bounds contain the
\* position, whether the position passes the clip check or not.
C15_MouseDownWithoutHandler ==
  /\ [][(Visiting({"Scroll", "Click", "MouseMove"})
           /\ matching_nodes' # matching_nodes)
          => HasHandler(current_node, event)]_vars
  /\ [][(Visiting({"MouseDown"}) /\ InBounds
                                /\ ~HasHandler(current_node, event))
          => Added]_vars

\* a mouse down walk is over with a candidate that has no handler for it
\* and lies below a clipping node that does not contain the position
C15_Witness ==
  /\ pc = "dispatch"
  /\ event.kind = "MouseDown"
  /\ \E n \in Range(matching_nodes) :
       /\ ~HasHandler(n, event)
       /\ \E c \in Nodes :
            /\ parent[n] = c
            /\ clip[c] = "true"
            /\ ~check_mouse_condition(event.position, c)

\* ------------------------------------------------------------------------
\* Properties of the global key handling
\* ------------------------------------------------------------------------
\* the keys that are down after the key events ks, none being down before
RECURSIVE Pressed(_)
Pressed(ks) ==
  IF ks = <<>> THEN {}
  ELSE IF Last(ks).kind = "KeyDown"
       THEN Pressed(Front(ks)) \cup {Last(ks).key}
       ELSE Pressed(Front(ks)) \ {Last(ks).key}

\* C16: once process_bottom_up_event has passed its key handling, during
\* the walk, the dispatch and after its return, the keyboard state is the
\* one that results from all key events dequeued so far, whether a node
\* matched or not; every handler is called in such a state.
C16_KeyStateBeforeWalk ==
  /\ [](pc # "bottom_up" => keyboard_state = Pressed(key_log))
  /\ [][calls' # calls =>
          /\ keyboard_state = Pressed(key_log)
          /\ key_log # <<>> /\ Last(key_log) = event
          /\ UNCHANGED keyboard_state]_vars

\* a key up handler was called after a key down and a key up of the same
\* key, and a key down of another key, were dequeued
C16_Witness ==
  /\ Len(key_log) = 3
  /\ key_log[1].kind = "KeyDown"
  /\ key_log[2].kind = "KeyDown" /\ key_log[2].key # key_log[1].key
  /\ key_log[3].kind = "KeyUp" /\ key_log[3].key = key_log[1].key
  /\ calls # <<>>
  /\ keyboard_state = {key_log[2].key}

\* ------------------------------------------------------------------------
\* Termination of run_with_context
\* ------------------------------------------------------------------------
\* C17: every call of run_with_context returns, also when the updates of
\* the widget states push events.
C17_Terminates == <>(pc = "returned")

\* ------------------------------------------------------------------------
\* Theme cascade (crates/theme/src/theme.rs)
\* ------------------------------------------------------------------------
\* A string value is the sequence of its characters. A map is a function
\* whose domain is the set of its keys; an absent Option<String> is "None".
BASE_STYLE == "base"
RESOURCE_KEY == "$"

StringValue(cs) == [kind |-> "String", chars |-> cs]
NumberValue == [kind |-> "Number", chars |-> <<"1">>]
EmptyMap == <<>>
Entry(k, v) == [x \in {k} |-> v]

\* str::starts_with(RESOURCE_KEY)
starts_with(cs) == Len(cs) >= 1 /\ cs[1] = RESOURCE_KEY
\* str::replace(RESOURCE_KEY, ""): every occurrence is removed
replace(cs) == SelectSeq(cs, LAMBDA c : c # RESOURCE_KEY)

\* Theme::get_property_value
get_property_value(property, properties) ==
  IF property \notin DOMAIN properties THEN NoValue
  ELSE LET v == properties[property] IN
    IF v.kind = "String" /\ starts_with(v.chars)
    THEN IF replace(v.chars) \in DOMAIN theme.resources
         THEN Some(theme.resources[replace(v.chars)])
         ELSE NoValue
    ELSE Some(v)

\* Theme::get_property
RECURSIVE get_property(_, _, _)
get_property(property, style, sel) ==
  LET base_known == style.base \in DOMAIN theme.styles
      rest ==
        LET value == get_property_value(property, style.properties) IN
        IF value # NoValue THEN value
        ELSE IF style.base = "" THEN NoValue
        ELSE IF base_known
             THEN get_property(property, theme.styles[style.base], sel)
             ELSE NoValue
  IN
  IF sel.state # "None"
  THEN IF sel.state \in DOMAIN style.states
       THEN get_property_value(property, style.states[sel.state])
       ELSE IF style.base = "" THEN NoValue
       ELSE IF base_known /\ sel.state \in DOMAIN theme.styles[style.base].states
            THEN get_property_value(property,
                                    theme.styles[style.base].states[sel.state])
            ELSE rest
  ELSE rest

\* Theme::property
property(prop, sel) ==
  IF sel.style # "None" /\ sel.style \in DOMAIN theme.styles
  THEN get_property(prop, theme.styles[sel.style], sel)
  ELSE IF BASE_STYLE \in DOMAIN theme.styles
       THEN get_property(prop, theme.styles[BASE_STYLE], sel)
       ELSE NoValue

\* ThemeX::read_property on every entry of a style's map: a resource
\* reference inserts the resource when it exists and nothing otherwise, any
\* other value is inserted as it is
read_property(props, map) ==
  LET inserts(v) ==
        IF v.kind = "String" /\ starts_with(v.chars)
        THEN replace(v.chars) \in DOMAIN theme.resources
        ELSE TRUE
      inserted(v) ==
        IF v.kind = "String" /\ starts_with(v.chars)
        THEN theme.resources[replace(v.chars)]
        ELSE v
      ins == {k \in DOMAIN props : inserts(props[k])}
  IN [k \in (DOMAIN map) \cup ins |->
        IF k \in ins THEN inserted(props[k]) ELSE map[k]]

\* ThemeX::read_properties
RECURSIVE read_properties(_, _)
read_properties(key, map) ==
  IF key = "" THEN map
  ELSE IF key \in DOMAIN theme.styles
       THEN LET style == theme.styles[key] IN
            read_property(style.properties, read_properties(style.base, map))
       ELSE map

\* ThemeX::read_states
RECURSIVE read_states(_, _, _)
read_states(style_key, state_key, map) ==
  IF style_key = "" \/ state_key = "" THEN map
  ELSE IF style_key \in DOMAIN theme.styles
       THEN LET style == theme.styles[style_key]
                own == read_property(style.properties,
                                     read_states(style.base, state_key, map))
            IN IF state_key \in DOMAIN style.states
               THEN read_property(style.states[state_key], own)
               ELSE own
       ELSE map

\* a construction that reads only the style's own properties and states
from_config_own ==
  [k \in DOMAIN theme.styles |->
     [properties |-> read_property(theme.styles[k].properties, EmptyMap),
      states |-> [s \in DOMAIN theme.styles[k].states |->
                    read_property(theme.styles[k].states[s], EmptyMap)]]]

\* ThemeX::from_config
from_config ==
  [k \in DOMAIN theme.styles |->
     [properties |-> read_properties(k, EmptyMap),
      states |-> [s \in DOMAIN theme.styles[k].states |->
                    read_states(k, s, EmptyMap)]]]

\* ThemeX::properties
properties(styles, sel) ==
  IF ~sel.dirty THEN NoValue
  ELSE IF sel.style # "None"
       THEN IF sel.style \notin DOMAIN styles THEN NoValue
            ELSE IF sel.state # "None"
                 THEN IF sel.state \in DOMAIN styles[sel.style].states
                      THEN Some(styles[sel.style].states[sel.state])
                      ELSE NoValue
                 ELSE Some(styles[sel.style].properties)
       ELSE NoValue

\* --- the themes and selectors the lookups are applied to ---
MaxProps == 1
PropNames == {"p", "q"}
StateNames == {"s"}

\* the maps with at most MaxProps entries
Maps(names, values) ==
  UNION {[d -> values] : d \in SubsetsUpTo(names, MaxProps)}

Literal(c) == StringValue(<<c>>)
\* "$a" names the resource "a", "$m" a resource no theme has, "$$a" holds
\* the resource key twice
AValues ==
  {Literal("v"), StringValue(<<"$", "a">>), StringValue(<<"$", "m">>),
   StringValue(<<"$", "$", "a">>)}
BValues == {Literal("w"), StringValue(<<"$", "a">>), NumberValue}

Style(base, st, props) ==
  [base |-> base, states |-> st, properties |-> props]

\* style "A", based on "B" or on nothing, with or without the state "s"
AStyles ==
  {Style(b, st, pr) :
     b \in {"", "B"},
     st \in {EmptyMap} \cup
            {Entry("s", m) : m \in Maps(PropNames, {Literal("v")})},
     pr \in Maps(PropNames, AValues)}
\* style "B", based on "base" or on nothing
BStyles ==
  {Style(b, st, pr) :
     b \in {"", BASE_STYLE},
     st \in {EmptyMap, Entry("s", Entry("p", Literal("w")))},
     pr \in Maps(PropNames, BValues)}
BaseStyles == {Style("", EmptyMap, Entry("p", Literal("b")))}

\* base chains are acyclic: "A" -> "B" -> "base"; "B" and "base" may be
\* missing from the theme
ThemeStyles ==
  {[k \in {"A"} \cup ks |->
      IF k = "A" THEN a ELSE IF k = "B" THEN b ELSE c] :
     a \in AStyles, b \in BStyles, c \in BaseStyles,
     ks \in SUBSET {"B", BASE_STYLE}}
Resources == {EmptyMap, Entry(<<"a">>, Literal("r"))}
Themes == {[styles |-> st, resources |-> r] : st \in ThemeStyles, r \in Resources}

\* selectors of a known style, an unknown style or no style; a selector
\* that is not dirty
Selectors ==
  {[style |-> st, state |-> sa, dirty |-> TRUE] :
     st \in {"None", "A", "B", "X"}, sa \in {"None"} \cup StateNames}
  \cup {[style |-> "A", state |-> "None", dirty |-> FALSE]}

\* a per-property lookup through Theme::property
Property ==
  /\ result.fn = "none"
  /\ \E prop \in PropNames :
       result' = [fn |-> "property", property |-> prop,
                  value |-> property(prop, selector)]
  /\ UNCHANGED <<themeFrame, theme, selector>>

\* the flattened theme is built and the selector's map is read from it
Properties ==
  /\ result.fn = "none"
  /\ result' = [fn |-> "properties", property |-> "",
                value |-> properties(from_config, selector)]
  /\ UNCHANGED <<themeFrame, theme, selector>>

InitTheme ==
  /\ InitSystem({<<>>}, {FALSE}, 0, 0, 0, RunHandlers)
  /\ dirty_widgets = <<>>
  /\ parent[MaxEntities] = root
  /\ theme \in Themes
  /\ selector \in Selectors
  /\ result = NoResult
  /\ NoLoader
  /\ NoNumericBox
  /\ NoSlider
  /\ NoBehavior
  /\ NoLayout
  /\ NoWidgets

NextTheme == Property \/ Properties

SpecTheme == InitTheme /\ [][NextTheme]_vars

\* ------------------------------------------------------------------------
\* Properties of the theme cascade
\* ------------------------------------------------------------------------
\* style "A" is based on style "B" and the theme has both
Inherits ==
  /\ theme.styles["A"].base = "B"
  /\ "B" \in DOMAIN theme.styles

\* the values style st gives property prop: the resolved entry of its
\* property map and of the map of the state the selector names
ValuesOf(st, prop) ==
  LET style == theme.styles[st] IN
  {get_property_value(prop, style.properties)}
  \cup {get_property_value(prop, style.states[sa]) :
          sa \in {x \in DOMAIN style.states :
                    x = selector.state /\ prop \in DOMAIN style.states[x]}}

\* prop is defined on style st: in its property map or in one of its states
DefinedOn(st, prop) ==
  LET style == theme.styles[st] IN
  \/ prop \in DOMAIN style.properties
  \/ \E sa \in DOMAIN style.states : prop \in DOMAIN style.states[sa]

\* the entry of a flattened map as an option
FlatValue(map, prop) ==
  IF prop \in DOMAIN map THEN Some(map[prop]) ELSE NoValue

\* C18: when "A" is based on "B" and the selector names "A", a property
\* defined only on "B" is returned with B's value and a property defined on
\* both with A's value, by Theme::property and in the flattened map
\* from_config builds for "A" (values that name a missing resource are left
\* aside)
C18_BaseInheritance ==
  (Inherits /\ selector.style = "A" /\ result.fn # "none") =>
    \A prop \in PropNames :
      LET got ==
            IF result.fn = "property" THEN result.value
            ELSE FlatValue(from_config["A"].properties, prop)
          asked == result.fn = "property" => result.property = prop
          onA == prop \in DOMAIN theme.styles["A"].properties
          onB == prop \in DOMAIN theme.styles["B"].properties
      IN
      /\ (asked /\ onB /\ ~DefinedOn("A", prop)
            /\ get_property_value(prop, theme.styles["B"].properties) # NoValue)
           => got \in ValuesOf("B", prop)
      /\ (asked /\ onB /\ onA
            /\ get_property_value(prop, theme.styles["A"].properties) # NoValue)
           => got \in ValuesOf("A", prop)

\* the same for a selector without a state
C18_StatelessInheritance ==
  selector.state = "None" => C18_BaseInheritance

\* the selector names a style of the theme and no state
NamesStyle ==
  /\ selector.style \in DOMAIN theme.styles
  /\ selector.state = "None"
  /\ selector.dirty

\* the resource a reference names: the entry called by the characters after
\* the first "$", or no value when the table has no such entry
Referenced(v) ==
  IF Tail(v.chars) \in DOMAIN theme.resources
  THEN Some(theme.resources[Tail(v.chars)])
  ELSE NoValue

\* C19: a property whose value in the selected style is a string starting
\* with "$" resolves to the resource named by the rest of the string, and to
\* no value when the theme has no such resource
C19_ResourceIndirection ==
  (NamesStyle /\ result.fn # "none") =>
    LET own == theme.styles[selector.style].properties IN
    \A prop \in DOMAIN own :
      (/\ result.fn = "property" => result.property = prop
       /\ own[prop].kind = "String"
       /\ starts_with(own[prop].chars))
      => IF result.fn = "property"
         THEN result.value = Referenced(own[prop])
         ELSE FlatValue(result.value[1], prop) = Referenced(own[prop])

\* the same for references that hold a single "$" in styles without a base
C19_PlainReference ==
  (NamesStyle /\ result.fn # "none") =>
    LET own == theme.styles[selector.style].properties IN
    \A prop \in DOMAIN own :
      (/\ result.fn = "property" => result.property = prop
       /\ own[prop].kind = "String"
       /\ starts_with(own[prop].chars)
       /\ replace(own[prop].chars) = Tail(own[prop].chars)
       /\ theme.styles[selector.style].base = "")
      => IF result.fn = "property"
         THEN result.value = Referenced(own[prop])
         ELSE FlatValue(result.value[1], prop) = Referenced(own[prop])

\* the selector names no style of the theme, and the theme has "base"
FallsBack ==
  /\ selector.style \notin DOMAIN theme.styles
  /\ selector.dirty
  /\ BASE_STYLE \in DOMAIN theme.styles

\* C20: a selector whose style name matches no style, or that has no style
\* name, is resolved with the style "base": Theme::property returns what the
\* style "base" gives the property, and ThemeX::properties returns the
\* flattened map of "base"
C20_FallbackToBase ==
  FallsBack =>
    /\ result.fn = "property" =>
         result.value =
           get_property(result.property, theme.styles[BASE_STYLE], selector)
    /\ result.fn = "properties" =>
         /\ result.value # NoValue
         /\ selector.state = "None" =>
              result.value = Some(from_config[BASE_STYLE].properties)

\* the part of C20 about Theme::property
C20_PropertyFallsBack ==
  (FallsBack /\ result.fn = "property") =>
    result.value =
      get_property(result.property, theme.styles[BASE_STYLE], selector)

\* what the last lookup gave property prop: the value Theme::property
\* returned, or the entry of the map ThemeX::properties returned
Got(prop) ==
  IF result.fn = "property" THEN result.value
  ELSE IF result.value = NoValue THEN NoValue
       ELSE FlatValue(result.value[1], prop)

\* the lookup was made, and a per-property lookup asked for prop
Asked(prop) ==
  /\ result.fn # "none"
  /\ result.fn = "property" => result.property = prop

\* the override the state sa of style st gives prop, when it has one that
\* resolves
Override(st, sa, prop) ==
  IF /\ st \in DOMAIN theme.styles
     /\ sa \in DOMAIN theme.styles[st].states
  THEN get_property_value(prop, theme.styles[st].states[sa])
  ELSE NoValue

\* C21: for a selector of style "A" with state "s": when "A" defines "s",
\* the override of "s" for a property is returned; when "A" does not define
\* "s", the override of "s" in the base style "B" is returned
C21_StateOverride ==
  (selector.style = "A" /\ selector.state = "s" /\ selector.dirty) =>
    \A prop \in PropNames :
      /\ (Asked(prop) /\ Override("A", "s", prop) # NoValue)
           => Got(prop) = Override("A", "s", prop)
      /\ (Asked(prop) /\ Inherits /\ "s" \notin DOMAIN theme.styles["A"].states
            /\ Override("B", "s", prop) # NoValue)
           => Got(prop) = Override("B", "s", prop)

\* the part of C21 about Theme::property
C21_PerPropertyOverride ==
  result.fn = "property" => C21_StateOverride

\* the selector with the other value of the dirty flag
OtherDirty == [selector EXCEPT !.dirty = ~selector.dirty]

\* C22: a lookup returns the same value for the same theme, style and state
\* whatever the selector's dirty flag is
C22_PureResolution ==
  /\ result.fn = "property" =>
       result.value = property(result.property, OtherDirty)
  /\ result.fn = "properties" =>
       result.value = properties(from_config, OtherDirty)

\* the part of C22 about Theme::property
C22_PropertyIgnoresDirty ==
  result.fn = "property" =>
    result.value = property(result.property, OtherDirty)

\* ------------------------------------------------------------------------
\* Construction of the flattened theme, one call of the recursion per step
\* ------------------------------------------------------------------------
\* the depth of calls the stack of the thread holds; a deeper recursion
\* exhausts it
MaxDepth == 4

Top(stack) == stack[Len(stack)]
Pop(stack) == SubSeq(stack, 1, Len(stack) - 1)

\* themes whose base references may form a cycle: "A" and "B" are based on
\* nothing, on themselves or on each other; the styles have no states
LoadStyles ==
  {Style(b, EmptyMap, pr) :
     b \in {"", "A", "B"}, pr \in Maps(PropNames, {Literal("v"), Literal("w")})}
LoadThemes ==
  {[styles |-> [k \in {"A", "B"} |-> IF k = "A" THEN a ELSE b],
    resources |-> EmptyMap] : a \in LoadStyles, b \in LoadStyles}

\* the style n base references away from style key k
RECURSIVE Walk(_, _)
Walk(k, n) ==
  IF n = 0 \/ k \notin DOMAIN theme.styles THEN k
  ELSE Walk(theme.styles[k].base, n - 1)

\* the base references of the theme form a cycle
Cyclic ==
  \E k \in DOMAIN theme.styles :
    Walk(k, Cardinality(DOMAIN theme.styles)) \in DOMAIN theme.styles

\* ThemeX::from_config: the loop takes the next style key and calls
\* read_properties on it with an empty map
FromConfig ==
  /\ loader.pc = "idle"
  /\ \E style_key \in (DOMAIN theme.styles) \ (DOMAIN loader.styles) :
       loader' = [loader EXCEPT !.pc = "read", !.stack = <<style_key>>,
                                !.map = EmptyMap, !.style_key = style_key]
  /\ UNCHANGED <<loaderFrame, themeVars>>

\* ThemeX::read_properties is entered with the key on top of the stack: it
\* returns for an empty or unknown key and calls itself on the base of the
\* style otherwise
ReadProperties ==
  /\ loader.pc = "read"
  /\ LET key == Top(loader.stack) IN
     IF key = "" \/ key \notin DOMAIN theme.styles
     THEN loader' = [loader EXCEPT !.pc = "unwind", !.stack = Pop(@)]
     ELSE IF Len(loader.stack) >= MaxDepth
          THEN loader' = [loader EXCEPT !.pc = "overflow"]
          ELSE loader' = [loader EXCEPT
                            !.stack = Append(@, theme.styles[key].base)]
  /\ UNCHANGED <<loaderFrame, themeVars>>

\* the call on the base has returned: the style's own properties are read
\* into the map and the call returns
ReadOwnProperties ==
  /\ loader.pc = "unwind"
  /\ loader.stack # <<>>
  /\ loader' = [loader EXCEPT
       !.map = read_property(theme.styles[Top(loader.stack)].properties, @),
       !.stack = Pop(@)]
  /\ UNCHANGED <<loaderFrame, themeVars>>

\* ThemeX::from_config inserts the flattened style; after the last style the
\* flattened theme is returned
InsertStyle ==
  /\ loader.pc = "unwind"
  /\ loader.stack = <<>>
  /\ LET built == (DOMAIN loader.styles) \cup {loader.style_key} IN
     loader' = [loader EXCEPT
       !.styles = [k \in built |->
                     IF k = loader.style_key
                     THEN [properties |-> loader.map, states |-> EmptyMap]
                     ELSE loader.styles[k]],
       !.pc = IF built = DOMAIN theme.styles THEN "built" ELSE "idle"]
  /\ UNCHANGED <<loaderFrame, themeVars>>

\* Theme::property on the theme as it was loaded: the lookup starts at the
\* selector's style, or at "base" when the theme has no such style
BeginProperty ==
  /\ loader.pc = "idle"
  /\ loader.styles = EmptyMap
  /\ result = NoResult
  /\ \E prop \in PropNames :
       IF selector.style # "None" /\ selector.style \in DOMAIN theme.styles
       THEN /\ loader' = [loader EXCEPT !.pc = "lookup",
                                        !.stack = <<selector.style>>]
            /\ result' = [result EXCEPT !.property = prop]
       ELSE IF BASE_STYLE \in DOMAIN theme.styles
            THEN /\ loader' = [loader EXCEPT !.pc = "lookup",
                                             !.stack = <<BASE_STYLE>>]
                 /\ result' = [result EXCEPT !.property = prop]
            ELSE /\ result' = [fn |-> "property", property |-> prop,
                               value |-> NoValue]
                 /\ UNCHANGED loader
  /\ UNCHANGED <<loaderFrame, theme, selector>>

\* one call of Theme::get_property on the style on top of the stack: it
\* returns a value, returns nothing, or calls itself on the base style
GetProperty ==
  /\ loader.pc = "lookup"
  /\ LET style == theme.styles[Top(loader.stack)]
         prop == result.property
         base_known == style.base \in DOMAIN theme.styles
         return(v) ==
           /\ result' = [fn |-> "property", property |-> prop, value |-> v]
           /\ loader' = [loader EXCEPT !.pc = "idle", !.stack = <<>>]
         plain ==
           LET value == get_property_value(prop, style.properties) IN
           IF value # NoValue THEN return(value)
           ELSE IF style.base = "" THEN return(NoValue)
           ELSE IF base_known
                THEN IF Len(loader.stack) >= MaxDepth
                     THEN /\ loader' = [loader EXCEPT !.pc = "overflow"]
                          /\ UNCHANGED result
                     ELSE /\ loader' = [loader EXCEPT
                                          !.stack = Append(@, style.base)]
                          /\ UNCHANGED result
                ELSE return(NoValue)
     IN
     IF selector.state # "None"
     THEN IF selector.state \in DOMAIN style.states
          THEN return(get_property_value(prop, style.states[selector.state]))
          ELSE IF style.base = "" THEN return(NoValue)
          ELSE IF base_known /\ selector.state
                                  \in DOMAIN theme.styles[style.base].states
               THEN return(get_property_value(prop,
                      theme.styles[style.base].states[selector.state]))
               ELSE plain
     ELSE plain
  /\ UNCHANGED <<loaderFrame, theme, selector>>

\* a theme is loaded and either flattened or asked for a property
InitLoader ==
  /\ InitSystem({<<>>}, {FALSE}, 0, 0, 0, RunHandlers)
  /\ dirty_widgets = <<>>
  /\ parent[MaxEntities] = root
  /\ theme \in LoadThemes
  /\ selector \in {[style |-> st, state |-> "None", dirty |-> TRUE] :
                     st \in {"A", "B"}}
  /\ result = NoResult
  /\ NoLoader
  /\ NoNumericBox
  /\ NoSlider
  /\ NoBehavior
  /\ NoLayout
  /\ NoWidgets

NextLoader ==
  \/ FromConfig \/ ReadProperties \/ ReadOwnProperties \/ InsertStyle
  \/ BeginProperty \/ GetProperty

SpecLoader == InitLoader /\ [][NextLoader]_vars

\* the stepwise construction builds the map ThemeX::from_config describes
LoaderAgrees ==
  /\ loader.pc = "built" => loader.styles = from_config
  /\ (result.fn = "property" /\ ~Cyclic) =>
       result.value = property(result.property, selector)

\* C23: a theme whose base references form a cycle is rejected when it is
\* constructed: neither the construction of the flattened theme nor a later
\* lookup recurses along the cycle until the stack is exhausted
C23_CycleRejected ==
  Cyclic =>
    /\ loader.pc # "overflow"
    /\ Len(loader.stack) <= Cardinality(DOMAIN theme.styles) + 1

\* C24: for a style of the theme and a selector without a state, the
\* flattened map of the style holds a property with a value exactly when
\* Theme::property returns that value for the property
C24_FlattenedAgrees ==
  NamesStyle =>
    /\ result.fn = "property" =>
         result.value =
           FlatValue(from_config[selector.style].properties, result.property)
    /\ result.fn = "properties" =>
         /\ result.value # NoValue
         /\ \A prop \in PropNames :
              FlatValue(result.value[1], prop) = property(prop, selector)

\* the flattened map of "A" was read and holds a property that only the
\* base "B" defines, by a reference to a resource
C24_Witness ==
  /\ NamesStyle /\ selector.style = "A" /\ Inherits
  /\ result.fn = "properties"
  /\ \E prop \in PropNames :
       /\ prop \notin DOMAIN theme.styles["A"].properties
       /\ prop \in DOMAIN theme.styles["B"].properties
       /\ theme.styles["B"].properties[prop] = StringValue(<<"$", "a">>)
       /\ FlatValue(result.value[1], prop) = Some(Literal("r"))

\* ------------------------------------------------------------------------
\* Widget containers: selectors and theme application
\* (crates/api/src/widget/widget_container.rs, crates/api/src/widget/mod.rs)
\* ------------------------------------------------------------------------
\* the entities of the subtree of e
Subtree(e) == {x \in entities : x = e \/ IsAncestor(e, x)}

NoSelector == [style |-> "None", state |-> "None", dirty |-> FALSE]
HasSelector(w, e) == w.selectors[e].style # "None"

\* update_state: a raised flag sets the state unless the selector has it
\* already, a lowered flag clears the state when the selector has it; both
\* mark the selector dirty
update_state(state, flag, sel) ==
  IF flag /\ (sel.state = "None" \/ sel.state # state)
  THEN [sel EXCEPT !.state = state, !.dirty = TRUE]
  ELSE IF ~flag /\ sel.state # "None" /\ sel.state = state
       THEN [sel EXCEPT !.state = "None", !.dirty = TRUE]
       ELSE sel

\* the calls of update_state in update_internal_theme_by_state, in their
\* order: the state name, the property read and whether the flag is the
\* negation of the property; "text" raises its flag when the text is empty
StateCalls ==
  << <<"focused", "focused", FALSE>>, <<"selected", "selected", FALSE>>,
     <<"pressed", "pressed", FALSE>>, <<"disabled", "enabled", TRUE>>,
     <<"empty", "text", FALSE>>, <<"expanded", "expanded", TRUE>> >>
StateNamesOfWidgets == {StateCalls[i][1] : i \in DOMAIN StateCalls}

\* the selector after the calls n, n+1, ... for a widget with properties pr
RECURSIVE UpdateStates(_, _, _)
UpdateStates(n, pr, sel) ==
  IF n > Len(StateCalls) THEN sel
  ELSE LET call == StateCalls[n]
           value == IF call[2] = "text" THEN pr[call[2]] = <<>>
                    ELSE pr[call[2]]
           flag == IF call[3] THEN ~value ELSE value
       IN IF call[2] \in DOMAIN pr
          THEN UpdateStates(n + 1, pr, update_state(call[1], flag, sel))
          ELSE UpdateStates(n + 1, pr, sel)

\* the theme keys update_properties_by_theme applies, by the type of the
\* component they are written to
StringKeys ==
  {"foreground", "background", "border_brush", "icon_brush", "font",
   "icon_font"}
NumberKeys ==
  {"border_radius", "font_size", "icon_size", "spacing", "opacity", "padding",
   "border_width", "padding_left", "padding_top", "padding_right",
   "padding_bottom"}

\* the components of a widget after the map of the theme was applied: a
\* component the widget has takes the value of its key when the value has
\* the type of the component
ApplyProperties(map, comps) ==
  [k \in DOMAIN comps |->
     IF /\ k \in DOMAIN map
        /\ \/ k \in StringKeys /\ map[k].kind = "String"
           \/ k \in NumberKeys /\ map[k].kind = "Number"
     THEN map[k] ELSE comps[k]]

\* a selector that stays dirty after the properties were applied
KeepDirty(sel) == sel

\* the last statement of update_properties_by_theme
ClearDirty(sel) == [sel EXCEPT !.dirty = FALSE]

\* update_properties_by_theme for entity e
update_properties_by_theme(w, e) ==
  IF ~HasSelector(w, e) THEN w
  ELSE LET sel == w.selectors[e] IN
    IF ~sel.dirty THEN w
    ELSE LET found == properties(from_config, sel) IN
      [w EXCEPT
         !.applied[e] = IF found # NoValue
                        THEN ApplyProperties(found[1], @) ELSE @,
         !.selectors[e] = ClearDirty(sel)]

\* the body of update_internal_theme_by_state for entity e, after its
\* children
update_one(w, force, e) ==
  IF ~HasSelector(w, e) THEN w
  ELSE LET w1 == [w EXCEPT
                    !.selectors[e] = UpdateStates(1, w.props[e], @)]
       IN IF w1.selectors[e].dirty \/ force
          THEN update_properties_by_theme(w1, e)
          ELSE w1

\* update_internal_theme_by_state: the children in their order, each with
\* its subtree, then the entity itself
RECURSIVE update_internal_theme_by_state(_, _, _)
RECURSIVE update_children(_, _, _)
update_children(w, force, cs) ==
  IF cs = <<>> THEN w
  ELSE update_children(update_internal_theme_by_state(w, force, cs[1]),
                       force, Tail(cs))
update_internal_theme_by_state(w, force, e) ==
  update_one(update_children(w, force, children[e]), force, e)

\* the theme of the widgets: a button with a pressed and a focused state
WidgetTheme ==
  [styles |->
     Entry("button",
       Style("",
             [sa \in {"pressed", "focused"} |->
                IF sa = "pressed"
                THEN Entry("background", Literal("p"))
                ELSE Entry("font_size", NumberValue)],
             Entry("background", Literal("b")))),
   resources |-> EmptyMap]

\* update_theme_by_state(force) on the container of entity e
UpdateThemeByState ==
  \E e \in {root, 2, 3} \cap entities, force \in BOOLEAN :
    /\ widgets' =
         [update_internal_theme_by_state(widgets, force, e) EXCEPT
            !.last = [op |-> "update_theme_by_state", entity |-> e,
                      force |-> force]]
    /\ UNCHANGED widgetsFrame

\* update_state(state, flag, widget) called on the widget of entity e
UpdateState ==
  \E e \in entities, state \in {"pressed", "empty"}, flag \in BOOLEAN :
    /\ HasSelector(widgets, e)
    /\ widgets' =
         [widgets EXCEPT
            !.selectors[e] = update_state(state, flag, @),
            !.last = [op |-> "update_state", entity |-> e, force |-> FALSE]]
    /\ UNCHANGED widgetsFrame

\* a widget changes one of its properties
SetProperty ==
  \E e \in entities :
    \E key \in DOMAIN widgets.props[e] :
      /\ widgets' =
           [widgets EXCEPT
              !.props[e][key] =
                 IF key = "text"
                 THEN (IF @ = <<>> THEN <<"x">> ELSE <<>>)
                 ELSE ~@,
              !.last = [op |-> "set", entity |-> e, force |-> FALSE]]
      /\ UNCHANGED widgetsFrame

\* entities 2 and 3 are themed widgets with a selector, new (dirty) or
\* applied before; the other entities have no selector
InitWidgets ==
  /\ InitSystem({<<>>}, {FALSE}, 0, 0, 0, RunHandlers)
  /\ dirty_widgets = <<>>
  /\ theme = WidgetTheme
  /\ selector = NoSelector
  /\ result = NoResult
  /\ NoLoader
  /\ NoNumericBox
  /\ NoSlider
  /\ NoBehavior
  /\ NoLayout
  /\ \E d2 \in BOOLEAN, d3 \in BOOLEAN :
       widgets =
         [selectors |->
            [e \in Entity |->
               IF e \in {2, 3}
               THEN [style |-> "button", state |-> "None",
                     dirty |-> IF e = 2 THEN d2 ELSE d3]
               ELSE NoSelector],
          props |->
            [e \in Entity |->
               IF e = 2
               THEN [k \in {"focused", "pressed"} |-> FALSE]
               ELSE IF e = 3
                    THEN [k \in {"enabled", "text"} |->
                            IF k = "text" THEN <<"x">> ELSE TRUE]
                    ELSE EmptyMap],
          applied |->
            [e \in Entity |->
               IF e \in {2, 3}
               THEN [k \in {"background", "font_size"} |-> Literal("-")]
               ELSE EmptyMap],
          last |-> [op |-> "none", entity |-> 0, force |-> FALSE]]

NextWidgets == UpdateThemeByState \/ UpdateState \/ SetProperty

SpecWidgets == InitWidgets /\ [][NextWidgets]_vars

\* C25: when update_theme_by_state has returned, with force or without, no
\* selector in the subtree it was called on is dirty; and a selector that
\* was not dirty becomes dirty only in a call of update_state that changes
\* its state
C25_SelectorsClean ==
  [][/\ widgets'.last.op = "update_theme_by_state" =>
          \A x \in Subtree(widgets'.last.entity) :
            HasSelector(widgets', x) => ~widgets'.selectors[x].dirty
     /\ \A x \in entities :
          (/\ HasSelector(widgets, x)
           /\ ~widgets.selectors[x].dirty
           /\ widgets'.selectors[x].dirty)
          => /\ widgets'.last.op = "update_state"
             /\ widgets'.last.entity = x
             /\ widgets'.selectors[x].state # widgets.selectors[x].state]_vars

\* update_theme_by_state without force has returned on entity 2: the
\* selector of its child 3 took the state "disabled" in the call, the
\* selector of 2 took "pressed" and the pressed background, and both are
\* clean
C25_Witness ==
  /\ widgets.last = [op |-> "update_theme_by_state", entity |-> 2,
                     force |-> FALSE]
  /\ widgets.selectors[2].state = "pressed"
  /\ widgets.applied[2]["background"] = Literal("p")
  /\ widgets.selectors[3].state = "disabled"
  /\ ~widgets.selectors[2].dirty
  /\ ~widgets.selectors[3].dirty

\* ------------------------------------------------------------------------
\* Text selection layout (crates/api/src/layout/text_selection.rs)
\* ------------------------------------------------------------------------
\* Lengths are counted in glyphs of width 1; a text is given by its length.
MaxText == 2
MaxWidth == 2

TextSelection(start_index, length) ==
  [start_index |-> start_index, length |-> length]
Size(width, height) == [width |-> width, height |-> height]

\* String16::get_string(start, end): the part of a text of length len, when
\* the range lies inside the text
get_string(len, start, end) ==
  IF start <= end /\ end <= len THEN Some(end - start) ELSE NoValue

\* RenderContext2D::measure(..).width of a text part
text_width(part) == part

\* Alignment::align_measure with margins of 0
align_measure(v_align, available, measure) ==
  IF v_align = "Stretch" THEN available ELSE measure

\* Layout::measure of a child layout: it reports its cached size
child_measure(l) == l.child_dirty

\* the two loops of measure over the children: each child that has a
\* layout is measured and its dirty flag is or-ed into the cached size
MeasureChildren(l) ==
  IF l.child_layout
  THEN [l EXCEPT !.desired_size.dirty = child_measure(l) \/ @,
                 !.calls.measure = @ + 1]
  ELSE l

\* a layout that takes no entity for collapsed
IsCollapsedNever(l) == FALSE

\* the visibility test at the head of measure and of arrange
IsCollapsed(l) == l.visibility = "Collapsed"

\* a comparison that never finds the selection changed
SelectionUnchanged(l) == FALSE

\* the comparison of the selection with the one the layout recorded
SelectionChanged(l) == l.text_selection[1] # l.old_text_selection

\* TextSelectionLayout::measure; seen holds the selection the entity had
\* when measure was last called, and is empty before the first call
measure(l0) ==
  LET l == [l0 EXCEPT !.calls = [measure |-> 0, arrange |-> 0],
                      !.seen = <<l0.text_selection>>] IN
  IF IsCollapsed(l)
  THEN LET l1 == [l EXCEPT !.desired_size.width = 0,
                           !.desired_size.height = 0]
       IN [l1 EXCEPT !.last = [op |-> "measure", dirty |-> l1.desired_size.dirty,
                               size |-> Size(l1.desired_size.width,
                                             l1.desired_size.height)]]
  ELSE
    LET l1 == IF l.text_selection # NoValue
              THEN [l EXCEPT
                      !.desired_size.dirty =
                         IF SelectionChanged(l) THEN TRUE ELSE @,
                      !.old_text_selection = l.text_selection[1]]
              ELSE l
        l2 == MeasureChildren(l1)
        l3 == [l2 EXCEPT
                 !.desired_size.width =
                    IF l.constraint.width > 0 THEN l.constraint.width ELSE @,
                 !.desired_size.height =
                    IF l.constraint.height > 0 THEN l.constraint.height ELSE @]
        l4 == MeasureChildren(l3)
    IN [l4 EXCEPT !.last = [op |-> "measure", dirty |-> l4.desired_size.dirty,
                            size |-> Size(l4.desired_size.width,
                                          l4.desired_size.height)]]

\* a caret that is never moved back into the viewport
DeltaNone(pos, width, view) == 0

\* the amount by which the caret leaves the viewport
Delta(pos, width, view) == IF pos < 0 THEN pos ELSE pos - view + width

\* the last statement of arrange
Arranged(l) == [l EXCEPT !.desired_size.dirty = FALSE]

\* TextSelectionLayout::arrange
arrange(l0, parent_size) ==
  LET l == [l0 EXCEPT !.calls = [measure |-> 0, arrange |-> 0]] IN
  IF IsCollapsed(l)
  THEN [l EXCEPT !.desired_size.width = 0, !.desired_size.height = 0,
                 !.last = [op |-> "arrange", dirty |-> l.desired_size.dirty,
                           size |-> Size(0, 0)]]
  ELSE
    LET height == align_measure(l.v_align, parent_size.height,
                                l.desired_size.height)
        has_text == l.text # NoValue
        text_len == IF has_text THEN l.text[1] ELSE 0
        has_selection == has_text /\ l.text_selection # NoValue
        selection == IF has_selection THEN l.text_selection[1]
                     ELSE TextSelection(0, 0)
        selection_start == selection.start_index
        before == get_string(text_len, 0, selection.start_index)
        pos0 == IF has_selection /\ before # NoValue
                THEN text_width(before[1]) ELSE 0
        part == get_string(text_len, selection.start_index,
                           selection.start_index + selection.length)
        width == IF ~has_selection THEN l.desired_size.width
                 ELSE IF selection.length > 0
                      THEN (IF part # NoValue THEN text_width(part[1])
                            ELSE l.desired_size.width)
                      ELSE l.constraint.width
        reset == ~l.expanded \/ text_len = 0
                 \/ (~l.expanded /\ selection_start = 0)
        overflow == /\ ~l.expanded /\ selection_start > 0
                    /\ (pos0 < 0 \/ pos0 + width > l.view_port_width)
        delta == Delta(pos0, width, l.view_port_width)
        pos == IF overflow THEN pos0 - delta ELSE pos0
        block1 == IF reset /\ l.block_margin # NoValue THEN Some(0)
                  ELSE l.block_margin
        block2 == IF overflow /\ text_len > 0 /\ block1 # NoValue
                  THEN Some(0 - delta) ELSE block1
        l1 == [l EXCEPT
                 !.block_margin = block2,
                 !.margin_left = pos,
                 !.bounds = Size(width, height),
                 !.marked = TRUE,
                 !.child_dirty = IF l.child_layout THEN FALSE ELSE @,
                 !.calls.arrange = IF l.child_layout THEN 1 ELSE 0,
                 !.last = [op |-> "arrange", dirty |-> FALSE,
                           size |-> Size(width, height)]]
        l2 == Arranged(l1)
    IN [l2 EXCEPT !.last.dirty = l2.desired_size.dirty]

\* the selections inside a text of length len
TextSelections(len) ==
  {TextSelection(i, n) : i \in 0..len, n \in 0..1} \cap
  {sel \in [start_index : 0..len, length : 0..1] :
     sel.start_index + sel.length <= len}

\* the pass the layout is in: 0 after a change of a component, 1 after a
\* measure, 2 after the arrange that follows it, 3 and 4 after a further
\* measure and arrange with no change in between
NextPhase(l, op) ==
  IF op = "measure" THEN (IF l.phase \in {2, 4} THEN 3 ELSE 1)
  ELSE IF l.phase = 1 THEN 2 ELSE IF l.phase = 3 THEN 4 ELSE 0

\* the layout system measures the cursor
Measure ==
  /\ layout' = [measure(layout) EXCEPT !.phase = NextPhase(layout, "measure")]
  /\ UNCHANGED layoutFrame

\* the layout system arranges the cursor in the size of its parent; the
\* sizes of a completed pass are kept for the comparison with the next one
Arrange ==
  /\ LET l == arrange(layout, Size(MaxWidth, 1))
         phase == NextPhase(layout, "arrange")
     IN layout' =
          [l EXCEPT !.phase = phase,
                    !.first = IF phase = 2
                              THEN [measured |-> layout.last.size,
                                    arranged |-> l.last.size]
                              ELSE @,
                    !.measured = layout.last.size]
  /\ UNCHANGED layoutFrame

\* the text field changes its selection
SetTextSelection ==
  /\ layout.text # NoValue
  /\ layout.text_selection # NoValue
  /\ \E selection \in TextSelections(layout.text[1]) :
       /\ layout.text_selection # Some(selection)
       /\ layout' = [layout EXCEPT !.text_selection = Some(selection),
                                   !.phase = 0, !.last.op = "set"]
  /\ UNCHANGED layoutFrame

\* the cursor is collapsed or shown
SetVisibility ==
  /\ layout' = [layout EXCEPT
                  !.visibility = IF @ = "Collapsed" THEN "Visible"
                                 ELSE "Collapsed",
                  !.phase = 0, !.last.op = "set"]
  /\ UNCHANGED layoutFrame

\* the layout of the child becomes dirty
MarkChild ==
  /\ layout.child_layout
  /\ ~layout.child_dirty
  /\ layout' = [layout EXCEPT !.child_dirty = TRUE, !.phase = 0,
                              !.last.op = "set"]
  /\ UNCHANGED layoutFrame

\* a cursor with its text block and parent
InitCursor(dirties, visibilities, widths, texts, blocks, expandeds, views, child_layouts, selecteds) ==
  /\ InitSystem({<<>>}, {FALSE}, 0, 0, 0, RunHandlers)
  /\ dirty_widgets = <<>>
  /\ parent[MaxEntities] = root
  /\ NoTheme
  /\ NoLoader
  /\ NoNumericBox
  /\ NoSlider
  /\ NoBehavior
  /\ NoWidgets
  /\ \E dirty \in dirties, shown \in visibilities, width \in widths,
        text \in texts, block \in blocks, expanded \in expandeds,
        view \in views, child \in child_layouts, selected \in selecteds :
       layout =
         [desired_size |-> [width |-> 0, height |-> 0, dirty |-> dirty],
          old_text_selection |-> TextSelection(0, 0),
          seen |-> <<>>,
          visibility |-> shown,
          constraint |-> Size(width, 1),
          v_align |-> "Stretch",
          text_selection |->
            IF selected THEN Some(TextSelection(0, 0)) ELSE NoValue,
          text |-> text,
          block_margin |-> block,
          margin_left |-> 0,
          bounds |-> Size(0, 0),
          marked |-> FALSE,
          expanded |-> expanded,
          view_port_width |-> view,
          child_layout |-> child,
          child_dirty |-> FALSE,
          calls |-> [measure |-> 0, arrange |-> 0],
          phase |-> 0,
          first |-> [measured |-> Size(0, 0), arranged |-> Size(0, 0)],
          measured |-> Size(0, 0),
          last |-> [op |-> "none", dirty |-> FALSE, size |-> Size(0, 0)]]

\* dirty tracking: a new layout (dirty) or one that was arranged before
\* (clean), shown or collapsed, with or without a child layout
InitLayout ==
  InitCursor(BOOLEAN, {"Visible", "Collapsed"}, 0..(MaxWidth - 1),
             {Some(1)},
             {Some(0)}, {FALSE}, {MaxWidth}, BOOLEAN, BOOLEAN)

NextLayout ==
  Measure \/ Arrange \/ SetTextSelection \/ SetVisibility \/ MarkChild

SpecLayout == InitLayout /\ [][NextLayout]_vars

\* the caret: a shown cursor over a missing, an empty or a filled text, in
\* a wide or a narrow viewport
InitCaret ==
  InitCursor({TRUE}, {"Visible"}, 0..MaxWidth,
             {NoValue, Some(0), Some(MaxText)},
             {NoValue, Some(0)}, BOOLEAN, {MaxWidth - 1, MaxWidth}, {FALSE},
             BOOLEAN)

NextCaret == Measure \/ Arrange \/ SetTextSelection

SpecCaret == InitCaret /\ [][NextCaret]_vars

\* ------------------------------------------------------------------------
\* Properties of the text selection layout
\* ------------------------------------------------------------------------
\* the step is a call of measure or of arrange
LayoutCalled(op) == layout'.last.op = op /\ layout' # layout

\* C26: for a collapsed entity measure and arrange return the size (0,0),
\* write no bounds and no margin of the entity, of its text block or of a
\* child, and call no child layout
C26_CollapsedUntouched ==
  [][(layout.visibility = "Collapsed" /\ (LayoutCalled("measure") \/ LayoutCalled("arrange")))
       => /\ layout'.last.size = Size(0, 0)
          /\ layout'.bounds = layout.bounds
          /\ layout'.margin_left = layout.margin_left
          /\ layout'.block_margin = layout.block_margin
          /\ layout'.marked = layout.marked
          /\ layout'.child_dirty = layout.child_dirty
          /\ layout'.calls = [measure |-> 0, arrange |-> 0]]_vars

\* a cursor that was arranged with a width while it was shown is collapsed
\* and arranged again: the call returned (0,0), the bounds kept their width
\* and the dirty child layout was not arranged
C26_Witness ==
  /\ layout.visibility = "Collapsed"
  /\ layout.last.op = "arrange"
  /\ layout.last.size = Size(0, 0)
  /\ layout.bounds.width > 0
  /\ layout.child_layout /\ layout.child_dirty

\* C27: a child that reports dirty in a measure makes the result of the
\* measure dirty; after an arrange the cached size is not dirty; a second
\* measure and arrange without a change in between give the sizes of the
\* first and leave the cached size clean, for collapsed entities too
C27_DirtyPropagation ==
  [][/\ (LayoutCalled("measure") /\ layout'.calls.measure > 0 /\ layout.child_dirty)
          => layout'.last.dirty
     /\ LayoutCalled("arrange") => ~layout'.desired_size.dirty
     /\ (LayoutCalled("arrange") /\ layout'.phase = 4)
          => /\ layout'.measured = layout'.first.measured
             /\ layout'.last.size = layout'.first.arranged
             /\ ~layout'.desired_size.dirty]_vars

\* the same for entities that are not collapsed
C27_ShownPropagation ==
  [][layout.visibility # "Collapsed" =>
     /\ (LayoutCalled("measure") /\ layout.child_layout /\ layout.child_dirty)
          => layout'.last.dirty
     /\ LayoutCalled("arrange") => ~layout'.desired_size.dirty
     /\ (LayoutCalled("arrange") /\ layout'.phase = 4)
          => /\ layout'.measured = layout'.first.measured
             /\ layout'.last.size = layout'.first.arranged
             /\ ~layout'.desired_size.dirty]_vars

\* C28: a measure reports dirty whenever the selection of the entity
\* differs from the one the previous measure saw, and an unchanged
\* selection does not make the result dirty when nothing else is dirty
C28_SelectionDirty ==
  [][LayoutCalled("measure") =>
       /\ (layout.seen # <<>> /\ layout.text_selection # NoValue
             /\ <<layout.text_selection>> # layout.seen)
            => layout'.last.dirty
       /\ (<<layout.text_selection>> = layout.seen
             /\ ~layout.desired_size.dirty /\ ~layout.child_dirty)
            => ~layout'.last.dirty]_vars

\* C28 for an entity that is not collapsed: the result of measure is dirty
\* whenever the selection differs from the recorded one, the selection is
\* recorded, and an unchanged selection does not make the result dirty when
\* nothing else is dirty
C28_ShownSelectionDirty ==
  [][(LayoutCalled("measure") /\ layout.visibility # "Collapsed"
        /\ layout.text_selection # NoValue) =>
       /\ layout.text_selection[1] # layout.old_text_selection
            => layout'.last.dirty
       /\ layout'.old_text_selection = layout.text_selection[1]
       /\ (layout.text_selection[1] = layout.old_text_selection
             /\ ~layout.desired_size.dirty /\ ~layout.child_dirty)
            => ~layout'.last.dirty]_vars

\* a shown cursor whose selection moved was measured in the second pass:
\* the result is dirty and the moved selection is recorded
C28_Witness ==
  /\ layout.visibility = "Visible"
  /\ layout.last.op = "measure"
  /\ layout.phase = 1
  /\ layout.first.arranged.width > 0
  /\ layout.last.dirty
  /\ ~layout.child_dirty
  /\ layout.old_text_selection.start_index > 0
  /\ layout.text_selection = Some(layout.old_text_selection)

\* the caret position before a shift: the width of the text before the
\* selection start
Unshifted(l) ==
  IF l.text # NoValue /\ l.text_selection # NoValue
       /\ get_string(l.text[1], 0, l.text_selection[1].start_index) # NoValue
  THEN text_width(get_string(l.text[1], 0,
                             l.text_selection[1].start_index)[1])
  ELSE 0

\* the selection start and the text length arrange works with
StartOf(l) ==
  IF l.text # NoValue /\ l.text_selection # NoValue
  THEN l.text_selection[1].start_index ELSE 0
TextLenOf(l) == IF l.text # NoValue THEN l.text[1] ELSE 0

\* C29: after arrange of a cursor that is not expanded, with selection
\* start > 0 and a text that is not empty, the left offset p and the width w
\* of the cursor satisfy p >= 0 and p + w <= width of the parent's bounds
\* when w fits into the parent, and when the caret would leave the viewport
\* the left margin of the text block is minus the overflow; a cursor that is
\* expanded or at start 0 keeps its position, and for those and for an empty
\* text the margin of the text block is not set to a shift
C29_CaretInViewport ==
  [][(LayoutCalled("arrange") /\ layout.visibility # "Collapsed") =>
       LET p == layout'.margin_left
           w == layout'.bounds.width
           view == layout.view_port_width
           shifting == ~layout.expanded /\ StartOf(layout) > 0
                         /\ TextLenOf(layout) > 0
       IN /\ (shifting /\ w <= view) => (p >= 0 /\ p + w <= view)
          /\ (shifting /\ Unshifted(layout) + w > view
                /\ layout.block_margin # NoValue)
               => layout'.block_margin =
                    Some(0 - (Unshifted(layout) + w - view))
          /\ (layout.expanded \/ StartOf(layout) = 0)
               => p = Unshifted(layout)
          /\ ~shifting
               => layout'.block_margin =
                    IF layout.block_margin # NoValue
                         /\ (~layout.expanded \/ TextLenOf(layout) = 0)
                    THEN Some(0) ELSE layout.block_margin]_vars

\* a caret behind the right edge of the viewport was arranged: the text
\* block is shifted to the left and the cursor ends at the right edge
C29_Witness ==
  /\ layout.last.op = "arrange"
  /\ ~layout.expanded
  /\ StartOf(layout) > 0
  /\ Unshifted(layout) + layout.bounds.width > layout.view_port_width
  /\ layout.block_margin # NoValue
  /\ layout.block_margin[1] < 0
  /\ layout.margin_left + layout.bounds.width = layout.view_port_width

\* ------------------------------------------------------------------------
\* Text behavior: the text processing of a text field
\* ------------------------------------------------------------------------
\* the longest text, in UTF-16 units
MaxUnits == 3

\* a character outside the basic plane and its surrogate pair
Astral == "U1F600"
Surrogates == <<"D83D", "DE00">>

\* the UTF-16 units of a character
Utf16Units(c) == IF c = Astral THEN Surrogates ELSE <<c>>

\* str::encode_utf16 and String16::from(String): the units of a string
RECURSIVE encode_utf16(_)
encode_utf16(s) ==
  IF s = <<>> THEN <<>> ELSE Utf16Units(Head(s)) \o encode_utf16(Tail(s))

\* String16::insert_str: the units of the string go in at unit index i
insert_str(units, i, s) ==
  SubSeq(units, 1, i) \o encode_utf16(s) \o SubSeq(units, i + 1, Len(units))

\* String16::remove: the unit at index i (counted from 0) goes
remove(units, i) ==
  SubSeq(units, 1, i) \o SubSeq(units, i + 2, Len(units))

\* the keys handle_key_event tells apart; "X" stands for every other key
BehaviorKeys == {"Left", "Right", "Backspace", "Delete", "Enter", "A", "X"}
KeyTexts == {<<>>, <<"X">>, <<Astral>>}

\* the key events: a key with a text, and a character key without one or
\* with a character outside the basic plane
TextKeyEvents ==
  {ev \in [key : BehaviorKeys, text : KeyTexts] :
     ev.key # "X" => ev.text = <<"X">>}

\* TextAction::Key and TextAction::Mouse
KeyAction(key, s) ==
  [kind |-> "Key", key |-> key, text |-> s, position |-> 0]
MouseAction(position) ==
  [kind |-> "Mouse", key |-> "", text |-> <<>>, position |-> position]

\* TextBehaviorState::reset
reset(b) == [b EXCEPT !.text_selection = TextSelection(0, 0)]

\* an update that never notices a text shortened from outside
check_outside_update_never(b) == b

\* TextBehaviorState::check_outside_update
check_outside_update(b) ==
  IF b.len # Len(b.text) /\ b.len > Len(b.text) THEN reset(b) ELSE b

\* TextBehaviorState::select_all
select_all(b) ==
  [b EXCEPT !.text_selection = TextSelection(0, Len(b.text)),
            !.expanded = Len(b.text) > 0]

\* TextBehaviorState::move_cursor_left
move_cursor_left(b) ==
  LET start == IF b.expanded THEN 0 ELSE b.text_selection.start_index
  IN [b EXCEPT !.text_selection =
                 TextSelection(IF start - 1 > 0 THEN start - 1 ELSE 0, 0),
               !.expanded = FALSE]

\* TextBehaviorState::move_cursor_right
move_cursor_right(b) ==
  LET text_len == Len(b.text)
      start == b.text_selection.start_index
  IN IF b.expanded
     THEN [b EXCEPT !.text_selection = TextSelection(text_len, 0),
                    !.expanded = FALSE]
     ELSE [b EXCEPT !.text_selection =
                      TextSelection(IF start < text_len THEN start + 1
                                    ELSE start, 0),
                    !.expanded = FALSE]

\* the units of the selection are removed from the last to the first
RECURSIVE remove_range(_, _, _)
remove_range(units, start, n) ==
  IF n = 0 THEN units
  ELSE remove_range(remove(units, start + n - 1), start, n - 1)

\* TextBehaviorState::clear_selection; Vec::remove panics for an index
\* beyond the last unit
clear_selection(b) ==
  IF /\ b.text_selection.length > 0
     /\ b.text_selection.start_index + b.text_selection.length > Len(b.text)
  THEN [b EXCEPT !.panicked = TRUE]
  ELSE
  [b EXCEPT !.text = remove_range(b.text, b.text_selection.start_index,
                                  b.text_selection.length),
            !.text_selection.length = 0,
            !.expanded = FALSE]

\* TextBehaviorState::back_space
back_space(b) ==
  LET index == b.text_selection.start_index IN
  IF b.expanded THEN clear_selection(b)
  ELSE IF index > 0
       THEN IF index - 1 >= Len(b.text)
            THEN [b EXCEPT !.panicked = TRUE]
            ELSE [b EXCEPT !.text = remove(b.text, index - 1),
                           !.text_selection.start_index = index - 1]
       ELSE b

\* TextBehaviorState::delete
delete(b) ==
  LET index == b.text_selection.start_index IN
  IF b.expanded THEN clear_selection(b)
  ELSE IF index < Len(b.text)
       THEN [b EXCEPT !.text = remove(b.text, index),
                      !.text_selection.start_index = index]
       ELSE b

\* TextBehaviorState::activate: the events are pushed
activate(b) == [b EXCEPT !.activated = TRUE]

\* an insertion that ignores the caret and puts the text at the start
insert_char_start(b, s) ==
  IF s = <<>> THEN b
  ELSE [b EXCEPT !.text = insert_str(b.text, 0, s),
                 !.text_selection.start_index = @ + Len(encode_utf16(s)),
                 !.expanded = FALSE]

\* TextBehaviorState::insert_char
insert_char(b, s) ==
  IF s = <<>> THEN b
  ELSE IF b.expanded
       THEN [b EXCEPT !.text = encode_utf16(s),
                      !.text_selection = TextSelection(1, 0),
                      !.expanded = FALSE]
       ELSE LET current_selection == b.text_selection
            IN [b EXCEPT
                  !.text = insert_str(b.text, current_selection.start_index,
                                      s),
                  !.text_selection.start_index =
                    current_selection.start_index + Len(encode_utf16(s))]

\* TextBehaviorState::handle_key_event
handle_key_event(b, key_event) ==
  IF ~b.focused THEN b
  ELSE CASE key_event.key = "Left" -> move_cursor_left(b)
         [] key_event.key = "Right" -> move_cursor_right(b)
         [] key_event.key = "Backspace" -> back_space(b)
         [] key_event.key = "Delete" -> delete(b)
         [] key_event.key = "Enter" -> activate(b)
         [] key_event.key = "A" ->
              IF b.ctrl_down THEN select_all(b)
              ELSE insert_char(b, key_event.text)
         [] OTHER -> insert_char(b, key_event.text)

\* TextBehaviorState::request_focus; the position of the mouse is given as
\* the index of the nearest character
request_focus(b, position) ==
  IF Len(b.text) > 0 /\ ~b.focused THEN select_all(b)
  ELSE IF b.expanded \/ b.focused
       THEN [b EXCEPT !.text_selection =
                        TextSelection(IF position <= Len(b.text)
                                      THEN position ELSE Len(b.text), 0),
                      !.expanded = FALSE]
       ELSE b

\* State::update of TextBehaviorState
state_update(b0) ==
  LET b1 == check_outside_update([b0 EXCEPT !.activated = FALSE])
      b2 == IF ~b1.focused /\ b1.text = <<>> /\ b1.state # "empty"
            THEN [b1 EXCEPT !.state = "empty"] ELSE b1
      b3 == IF ~b2.focused /\ b2.request_focus
            THEN select_all([b2 EXCEPT !.request_focus = FALSE]) ELSE b2
      b4 == [b3 EXCEPT !.state_focused = b3.focused]
      b5 == IF b4.action = NoValue THEN b4
            ELSE [(IF b4.action[1].kind = "Key"
                   THEN handle_key_event(b4, b4.action[1])
                   ELSE request_focus(b4, b4.action[1].position))
                    EXCEPT !.action = NoValue]
      b6 == [b5 EXCEPT !.len = Len(b5.text)]
  IN IF b6.len = 0 /\ b6.state_focused
     THEN [b6 EXCEPT !.state = "empty_focused"]
     ELSE IF b6.len > 0 /\ b6.state_focused
          THEN [b6 EXCEPT !.state = "focused"] ELSE b6

\* the key down handler of the text field keeps the event for the update
KeyDown ==
  /\ ~behavior.panicked
  /\ \E ev \in TextKeyEvents :
       behavior' = [behavior EXCEPT
                      !.action = Some(KeyAction(ev.key, ev.text)),
                                    !.before = NoValue,
                                    !.activated = FALSE]
  /\ UNCHANGED behaviorFrame

\* the mouse down handler of the text field keeps the click for the update
MouseDown ==
  /\ ~behavior.panicked
  /\ \E position \in 0..Len(behavior.text) :
       behavior' = [behavior EXCEPT !.action = Some(MouseAction(position)),
                                    !.before = NoValue,
                                    !.activated = FALSE]
  /\ UNCHANGED behaviorFrame

\* the state of the text field is updated; before holds what the update
\* started from and activated whether it pushed its events, and both are
\* empty after every other step
UpdateBehavior ==
  /\ ~behavior.panicked
  /\ Len(state_update(behavior).text) <= MaxUnits
  /\ behavior' = [state_update(behavior) EXCEPT
                    !.before = Some([text |-> behavior.text,
                                text_selection |->
                                  check_outside_update(behavior)
                                    .text_selection,
                                expanded |-> behavior.expanded,
                                focused |-> behavior.focused,
                                ctrl_down |-> behavior.ctrl_down,
                                action |-> behavior.action,
                                len |-> behavior.len,
                                selection |-> behavior.text_selection])]
  /\ UNCHANGED behaviorFrame

\* the focus of the window moves to the text field or away from it
SetFocused ==
  /\ ~behavior.panicked
  /\ behavior' = [behavior EXCEPT !.focused = ~behavior.focused,
                                  !.before = NoValue,
                                    !.activated = FALSE]
  /\ UNCHANGED behaviorFrame

\* the control key goes down or up
SetCtrl ==
  /\ ~behavior.panicked
  /\ behavior' = [behavior EXCEPT !.ctrl_down = ~behavior.ctrl_down,
                                  !.before = NoValue,
                                    !.activated = FALSE]
  /\ UNCHANGED behaviorFrame

\* the texts an outside change may leave: a shorter start of the text, or
\* the text with one more unit
OutsideTexts(units) ==
  {SubSeq(units, 1, n) : n \in 0..(Len(units) - 1)}
  \cup (IF Len(units) < MaxUnits THEN {Append(units, "X")} ELSE {})

\* the text is changed from outside
SetText ==
  /\ ~behavior.panicked
  /\ \E units \in OutsideTexts(behavior.text) :
       behavior' = [behavior EXCEPT !.text = units,
                                    !.before = NoValue,
                                    !.activated = FALSE]
  /\ UNCHANGED behaviorFrame

\* a text field after State::init, empty or with a text, with the caret at
\* the start
InitBehavior ==
  /\ InitSystem({<<>>}, {FALSE}, 0, 0, 0, RunHandlers)
  /\ dirty_widgets = <<>>
  /\ parent[MaxEntities] = root
  /\ NoTheme
  /\ NoLoader
  /\ NoNumericBox
  /\ NoSlider
  /\ NoWidgets
  /\ NoLayout
  /\ \E units \in {<<>>, <<"h", "e">>} :
       behavior =
         [text |-> units,
          text_selection |-> TextSelection(0, 0),
          expanded |-> FALSE,
          focused |-> FALSE,
          request_focus |-> FALSE,
          ctrl_down |-> FALSE,
          action |-> NoValue,
          len |-> Len(units),
          state_focused |-> FALSE,
          state |-> IF units = <<>> THEN "empty" ELSE "None",
          activated |-> FALSE,
          panicked |-> FALSE,
          before |-> NoValue]

NextBehavior ==
  KeyDown \/ MouseDown \/ UpdateBehavior \/ SetFocused \/ SetCtrl \/ SetText

SpecBehavior == InitBehavior /\ [][NextBehavior]_vars

\* ------------------------------------------------------------------------
\* Properties of the text behavior
\* ------------------------------------------------------------------------
\* the number of UTF-16 units of a string
RECURSIVE UnitCount(_)
UnitCount(s) ==
  IF s = <<>> THEN 0
  ELSE (IF Head(s) = Astral THEN 2 ELSE 1) + UnitCount(Tail(s))

\* new is old[0..i] + s + old[i..]
InsertedAt(old, new, i, s) ==
  /\ Len(new) = Len(old) + UnitCount(s)
  /\ SubSeq(new, 1, i) = SubSeq(old, 1, i)
  /\ SubSeq(new, i + 1, i + UnitCount(s)) = encode_utf16(s)
  /\ SubSeq(new, i + UnitCount(s) + 1, Len(new)) = SubSeq(old, i + 1, Len(old))

\* the selection the key event is handled with: the one of the text field,
\* or the start of the text when the text was shortened from outside
Caret(b) == check_outside_update(b).text_selection

\* the step is an update of a focused text field whose cursor is not
\* expanded and which holds a key event with a text, the caret lying
\* inside the text
TextKeyed ==
  /\ behavior'.before # NoValue
  /\ behavior.action # NoValue
  /\ behavior.action[1].kind = "Key"
  /\ behavior.action[1].text # <<>>
  /\ behavior.focused
  /\ ~behavior.expanded
  /\ Caret(behavior).start_index <= Len(behavior.text)

\* the text of the event went into the text at the caret, the caret moved
\* behind it and the length of the selection stayed
TextInserted ==
  /\ InsertedAt(behavior.text, behavior'.text, Caret(behavior).start_index,
                behavior.action[1].text)
  /\ behavior'.text_selection.start_index =
       Caret(behavior).start_index + UnitCount(behavior.action[1].text)
  /\ behavior'.text_selection.length = Caret(behavior).length

\* the keys handle_key_event does not pass to insert_char
ControlKeyed ==
  \/ behavior.action[1].key \in {"Left", "Right", "Backspace", "Delete",
                                 "Enter"}
  \/ behavior.action[1].key = "A" /\ behavior.ctrl_down

\* C30: for a focused text field whose cursor is not expanded, a key event
\* with a text s that is not empty and the caret at i replaces the text by
\* text[0..i] + s + text[i..], moves the caret to i plus the number of
\* UTF-16 units of s and leaves the length of the selection unchanged
C30_TextInsertion == [][TextKeyed => TextInserted]_vars

\* C30 for the keys that insert: the same, when the key is none of Left,
\* Right, Backspace, Delete and Enter and is not A with the control key down
C30_CharacterInsertion ==
  [][(TextKeyed /\ ~ControlKeyed) => TextInserted]_vars

\* "he" with the caret at 1 got the key X: the text is "hXe" and the caret
\* is at 2
C30_Witness ==
  /\ behavior # <<>>
  /\ behavior.before # NoValue
  /\ behavior.before[1].action = Some(KeyAction("X", <<"X">>))
  /\ behavior.before[1].focused
  /\ ~behavior.before[1].expanded
  /\ behavior.before[1].text = <<"h", "e">>
  /\ behavior.before[1].text_selection = TextSelection(1, 0)
  /\ behavior.text = <<"h", "X", "e">>
  /\ behavior.text_selection = TextSelection(2, 0)

\* a character outside the basic plane moves the caret by two units
C30_AstralInserted ==
  [][(TextKeyed /\ ~ControlKeyed /\ behavior.action[1].text = <<Astral>>)
       => /\ behavior'.text_selection.start_index =
               Caret(behavior).start_index + 2
          /\ Len(behavior'.text) = Len(behavior.text) + 2]_vars

\* after an update the selection lies inside the text
C30_SelectionInside ==
  (behavior # <<>> /\ behavior.before # NoValue) =>
    behavior.text_selection.start_index + behavior.text_selection.length
      <= Len(behavior.text)

\* ------------------------------------------------------------------------
\* Soft misses of the bottom-up walk
\* ------------------------------------------------------------------------
\* C33: a widget that lacks the "enabled" or the "visibility" component, or
\* has no entry in the handler map, is skipped by the walk: the dispatch of
\* no event kind, key events included, ends in a fatal failure
C33_SoftMissSkipped == pc # "panicked"

\* C33 for pointer events: the walk over a tree with such widgets never
\* fails, and a widget without an entry in the handler map is never called
C33_PointerSoftMiss ==
  /\ event.kind \in PointerKinds => pc # "panicked"
  /\ \A e \in Nodes : e \notin DOMAIN handler_map => ~Called(e)
  /\ pc = "panicked" =>
       /\ event.kind \in KeyKinds
       /\ enabled[current_node] = "absent"

\* ------------------------------------------------------------------------
\* Removal requests of a dirty pass
\* ------------------------------------------------------------------------
\* the dirty pass is over: the end of the list is reached or the call has
\* returned
PassOver == pc \in {"states", "returned"} /\ dirty_index >= DirtyLen

\* the requests that were not carried out: they are still in the list and
\* their entity still exists
Dropped ==
  {i \in 1..Len(remove_widget_list) : remove_widget_list[i] \in entities}

\* C34: every removal requested during a dirty pass is carried out before
\* run_with_context returns, also when one update requests several removals
\* and when the requesting widget is the last entry of the dirty list
C34_RemovalsCarriedOut == PassOver => Dropped = {}

\* C34 when no more than one removal was requested in the call: the request
\* is carried out
C34_SingleRemoval ==
  (PassOver /\ remove_budget >= MaxRemove - 1) => Dropped = {}

\* ------------------------------------------------------------------------
\* Updates of a call
\* ------------------------------------------------------------------------
\* how often the entity occurs in the dirty list
Occurrences(e) ==
  Cardinality({i \in 1..Len(dirty_widgets) : dirty_widgets[i] = e})

\* C36: within one call of run_with_context the update of a state is
\* invoked at most once for every occurrence of its entity in the dirty
\* list, also when an update pushes an event and the tick loop drains again
C36_UpdateOncePerOccurrence ==
  \A e \in Entity : CountOf("update", e) <= Occurrences(e)

\* C36 within one dirty pass: while the first pass of the call runs, no
\* state was updated more often than its entity occurs in the dirty list
C36_OncePerPass ==
  passes <= 1 => \A e \in Entity : CountOf("update", e) <= Occurrences(e)

\* ------------------------------------------------------------------------
\* The clip stack
\* ------------------------------------------------------------------------
\* the node lies below a clipping node
Clipped(n) == \E c \in Nodes : IsAncestor(c, n) /\ clip[c] = "true"

\* the hit test of the node alone: inside the bounds, with a handler
Hit(n) ==
  /\ HasHandler(n, event)
  /\ check_mouse_condition(event.position, n)
  /\ ~\E w \in Nodes : (w = n \/ IsAncestor(w, n)) /\ Off(w)

\* C35: after the walk of a click or a mouse move every node that passes
\* the hit test and lies below no clipping node is a candidate: no clip
\* check against a clipping node of another subtree excludes it
C35_NoForeignClip ==
  (pc = "dispatch" /\ event.kind \in {"Click", "MouseMove"}) =>
    \A n \in Nodes : (Hit(n) /\ ~Clipped(n)) => n \in Range(matching_nodes)

\* ------------------------------------------------------------------------
\* Lookups under a state
\* ------------------------------------------------------------------------
\* the plain properties of style st or of a style of its base chain give
\* prop a value
RECURSIVE InChain(_, _)
InChain(st, prop) ==
  /\ st \in DOMAIN theme.styles
  /\ \/ get_property_value(prop, theme.styles[st].properties) # NoValue
     \/ /\ theme.styles[st].base # ""
        /\ InChain(theme.styles[st].base, prop)

\* the style the lookup starts from
Selected ==
  IF selector.style \in DOMAIN theme.styles THEN selector.style
  ELSE BASE_STYLE

\* C37: Theme::property returns a value for a property that the plain
\* properties of the selected style or of its base chain define, whatever
\* state the selector carries
C37_DefinedUnderAnyState ==
  (result.fn = "property" /\ InChain(Selected, result.property)) =>
    result.value # NoValue

\* C37 for a selector without a state
C37_Stateless ==
  selector.state = "None" => C37_DefinedUnderAnyState

\* ------------------------------------------------------------------------
\* The selection and the text
\* ------------------------------------------------------------------------
\* C39: after every update of the text behavior the selection ends inside
\* the text, start_index + length <= the number of UTF-16 units, and no
\* update removes a unit at an index beyond the end of the text, whatever
\* keys, clicks and outside changes of the text came before
C39_SelectionInsideText ==
  /\ behavior.before # NoValue =>
       behavior.text_selection.start_index + behavior.text_selection.length
         <= Len(behavior.text)
  /\ ~behavior.panicked

\* the text was shortened from outside below the end of the selection, and
\* the update that followed handled a Backspace with the caret at the start
C39_Witness ==
  /\ behavior.before # NoValue
  /\ behavior.before[1].len > Len(behavior.before[1].text)
  /\ behavior.before[1].selection.start_index > Len(behavior.before[1].text)
  /\ behavior.before[1].action = Some(KeyAction("Backspace", <<"X">>))
  /\ behavior.before[1].focused
  /\ behavior.text_selection = TextSelection(0, 0)
  /\ behavior.text = behavior.before[1].text
  /\ ~behavior.panicked

\* ------------------------------------------------------------------------
\* Slider (crates/widgets/src/slider.rs)
\* ------------------------------------------------------------------------
\* the largest value of min, max and val, and the widest track
MaxVal == 2
MaxTrack == 3

\* f64::max and f64::min of two numbers
f64_max(a, b) == IF a > b THEN a ELSE b
f64_min(a, b) == IF a < b THEN a ELSE b

adjust_val(value, minimum, maximum) ==
  IF value < minimum THEN minimum
  ELSE IF value > maximum THEN maximum ELSE value

adjust_min(minimum, maximum) ==
  IF minimum > maximum THEN maximum ELSE minimum

adjust_max(minimum, maximum) ==
  IF maximum < minimum THEN minimum ELSE maximum

\* the distance of the mouse from the slider without any limit
calculate_thumb_x_unclamped(mouse_x, thumb_width, slider_x, track_width) ==
  mouse_x - slider_x - thumb_width

calculate_thumb_x(mouse_x, thumb_width, slider_x, track_width) ==
  f64_min(f64_max(mouse_x - slider_x - thumb_width, 0),
          track_width - thumb_width)

\* thumb_x / (track_width - thumb_width) * (max - min); the widths of the
\* sliders below differ by one, so the quotient is exact
calculate_val(thumb_x, minimum, maximum, thumb_width, track_width) ==
  (thumb_x * (maximum - minimum)) \div (track_width - thumb_width)

\* (val / (max - min)) * (track_width - thumb_width) as a fraction
\* <<numerator, denominator>>; the denominator 0 stands for a value that
\* is not a finite number
calculate_thumb_x_from_val(value, minimum, maximum, track_width, thumb_width) ==
  <<value * (track_width - thumb_width), maximum - minimum>>

\* SliderState::adjust: the slider after the call and the flag returned.
\* A property is adjusted only when it differs from the value the state
\* cached
adjust(sl) ==
  LET s1 == IF sl.min # sl.state.min
            THEN [sl EXCEPT !.min = adjust_min(sl.min, sl.max),
                            !.state.min = adjust_min(sl.min, sl.max)]
            ELSE sl
      s2 == IF s1.max # s1.state.max
            THEN [s1 EXCEPT !.max = adjust_max(s1.min, s1.max),
                            !.state.max = adjust_max(s1.min, s1.max)]
            ELSE s1
      s3 == IF s2.val # s2.state.val
            THEN [s2 EXCEPT !.val = adjust_val(s2.val, s2.min, s2.max),
                            !.state.val = adjust_val(s2.val, s2.min, s2.max)]
            ELSE s2
  IN [slider |-> s3,
      has_changes |-> \/ sl.min # sl.state.min
                      \/ s1.max # s1.state.max
                      \/ s2.val # s2.state.val]

\* SliderState::adjust_thumb_x
adjust_thumb_x(sl) ==
  [sl EXCEPT !.margin =
     calculate_thumb_x_from_val(sl.val, sl.min, sl.max, sl.track_width,
                                sl.thumb_width)]

\* SliderState::update_post_layout
update_post_layout(sl) ==
  IF sl.action # NoValue
  THEN IF sl.pressed
       THEN LET thumb_x == calculate_thumb_x(sl.action[1], sl.thumb_width,
                                             sl.position, sl.track_width)
            IN [sl EXCEPT
                  !.margin = <<thumb_x, 1>>,
                  !.val = calculate_val(thumb_x, sl.min, sl.max,
                                        sl.thumb_width, sl.track_width),
                  !.action = NoValue]
       ELSE [sl EXCEPT !.action = NoValue]
  ELSE IF adjust(sl).has_changes
       THEN adjust_thumb_x(adjust(sl).slider)
       ELSE sl

SliderVals == 0..MaxVal
SliderKeys == {"min", "max", "val"}

\* a property of the slider is set from outside
SetSliderProperty ==
  /\ \E key \in SliderKeys, v \in SliderVals :
       slider' = [slider EXCEPT ![key] = v, !.adjusted = FALSE]
  /\ UNCHANGED sliderFrame

\* the mouse move handler of the slider keeps the position for the update
SliderMouseMove ==
  /\ \E mouse_x \in 0..MaxTrack :
       slider' = [slider EXCEPT !.action = Some(mouse_x),
                                !.adjusted = FALSE]
  /\ UNCHANGED sliderFrame

\* the thumb is pressed or released
SetPressed ==
  /\ slider' = [slider EXCEPT !.pressed = ~slider.pressed,
                              !.adjusted = FALSE]
  /\ UNCHANGED sliderFrame

\* the state of the slider is updated after the layout; adjusted tells
\* that the call made last was one without a pending action
UpdatePostLayout ==
  /\ slider' = [update_post_layout(slider) EXCEPT
                  !.adjusted = slider.action = NoValue]
  /\ UNCHANGED sliderFrame

\* a slider after SliderState::default and the template, with the
\* properties the builder gave it; the thumb is one unit wide on a track of
\* two units
InitSlider ==
  /\ InitSystem({<<>>}, {FALSE}, 0, 0, 0, RunHandlers)
  /\ dirty_widgets = <<>>
  /\ parent[MaxEntities] = root
  /\ NoTheme
  /\ NoLoader
  /\ NoWidgets
  /\ NoLayout
  /\ NoBehavior
  /\ NoNumericBox
  /\ \E minimum \in SliderVals, maximum \in SliderVals, value \in SliderVals :
       slider = [min |-> minimum, max |-> maximum, val |-> value,
                 state |-> [min |-> 0, max |-> 0, val |-> 0],
                 action |-> NoValue,
                 pressed |-> FALSE,
                 margin |-> <<0, 1>>,
                 thumb_width |-> 1, track_width |-> 2, position |-> 0,
                 adjusted |-> FALSE]

NextSlider ==
  SetSliderProperty \/ SliderMouseMove \/ SetPressed \/ UpdatePostLayout

SpecSlider == InitSlider /\ [][NextSlider]_vars

\* the arguments of one call of calculate_thumb_x
InitThumb ==
  /\ InitSystem({<<>>}, {FALSE}, 0, 0, 0, RunHandlers)
  /\ dirty_widgets = <<>>
  /\ parent[MaxEntities] = root
  /\ NoTheme
  /\ NoLoader
  /\ NoWidgets
  /\ NoLayout
  /\ NoBehavior
  /\ NoNumericBox
  /\ slider \in [mouse_x : (0 - MaxTrack)..(2 * MaxTrack),
                 slider_x : 0..1,
                 thumb_width : 0..MaxTrack,
                 track_width : 0..MaxTrack,
                 thumb_x : {NoValue}]

\* the position of the thumb is calculated
CalculateThumbX ==
  /\ slider.thumb_x = NoValue
  /\ slider' = [slider EXCEPT !.thumb_x =
                  Some(calculate_thumb_x(slider.mouse_x, slider.thumb_width,
                                         slider.slider_x,
                                         slider.track_width))]
  /\ UNCHANGED sliderFrame

SpecThumb == InitThumb /\ [][CalculateThumbX]_vars

\* ------------------------------------------------------------------------
\* Properties of the slider
\* ------------------------------------------------------------------------
\* x limited to the interval from lo to hi
Clamped(x, lo, hi) == IF x < lo THEN lo ELSE IF x > hi THEN hi ELSE x

\* C31: for a track at least as wide as the thumb, calculate_thumb_x is
\* mouse_x - slider_x - thumb_width limited to the interval from 0 to
\* track_width - thumb_width: it is never negative and never greater than
\* track_width - thumb_width
C31_ThumbClamped ==
  (slider.thumb_x # NoValue /\ slider.track_width >= slider.thumb_width) =>
    /\ slider.thumb_x[1] =
         Clamped(slider.mouse_x - slider.slider_x - slider.thumb_width,
                 0, slider.track_width - slider.thumb_width)
    /\ slider.thumb_x[1] >= 0
    /\ slider.thumb_x[1] <= slider.track_width - slider.thumb_width

\* a mouse beyond the end of the track puts the thumb at the end
C31_Witness ==
  /\ slider.thumb_x # NoValue
  /\ slider.track_width > slider.thumb_width
  /\ slider.thumb_width > 0
  /\ slider.mouse_x - slider.slider_x - slider.thumb_width
       > slider.track_width - slider.thumb_width
  /\ slider.thumb_x[1] = slider.track_width - slider.thumb_width

\* C38: after every update_post_layout that ran without a pending action,
\* min <= max and min <= val <= max, whatever was set from outside before
C38_RangeInvariant ==
  slider.adjusted =>
    /\ slider.min <= slider.max
    /\ slider.min <= slider.val
    /\ slider.val <= slider.max

\* C38 for the range alone: after such a call min <= max
C38_RangeOrdered ==
  slider.adjusted => slider.min <= slider.max

\* ------------------------------------------------------------------------
\* Numeric box (crates/widgets/src/numeric_box.rs)
\* ------------------------------------------------------------------------
\* the largest bound of a numeric box, its largest step and the most
\* clicks on its buttons
MaxNum == 2
MaxStep == 2
MaxClicks == 2

\* Decimal::to_string of a whole number: its decimal digits, with a sign
\* for a negative number
DigitChars == <<"0", "1", "2", "3", "4", "5", "6", "7", "8", "9">>
RECURSIVE Digits(_)
Digits(n) ==
  IF n < 10 THEN <<DigitChars[n + 1]>>
  ELSE Append(Digits(n \div 10), DigitChars[(n % 10) + 1])
to_string(n) == IF n < 0 THEN <<"-">> \o Digits(0 - n) ELSE Digits(n)

\* InputAction
InputAction(kind, key, y) == [kind |-> kind, key |-> key, y |-> y]
Inc == InputAction("Inc", "", 0)
Dec == InputAction("Dec", "", 0)
Focus == InputAction("Focus", "", 0)
ChangeByKey(key) == InputAction("ChangeByKey", key, 0)
ChangeByMouseScroll(y) == InputAction("ChangeByMouseScroll", "", y)

\* the keys update tells apart; "X" stands for every other key
NumericKeys == {"Up", "NumpadAdd", "Down", "NumpadSubtract", "Enter", "X"}

\* NumericBoxState::action: the action replaces the pending one
action(nb, input_action) == [nb EXCEPT !.action = Some(input_action)]

\* NumericBoxState::min: d or the lower bound, whichever is greater
min(nb, d) == IF d <= nb.min THEN nb.min ELSE d

\* NumericBoxState::max: d or the upper bound, whichever is smaller
max(nb, d) == IF d >= nb.max THEN nb.max ELSE d

\* a change that takes the new value as it is
change_val_unclamped(nb, new_value) ==
  [nb EXCEPT !.current_value = new_value,
             !.val = new_value,
             !.text = to_string(new_value),
             !.changed = TRUE,
             !.applied = @ + (IF nb.action[1].kind \in {"Inc", "Dec"}
                              THEN 1 ELSE 0)]

\* NumericBoxState::change_val; applied counts the calls made for a click
\* on a button
change_val(nb, new_value) ==
  LET called == [nb EXCEPT !.applied =
                   @ + (IF nb.action[1].kind \in {"Inc", "Dec"}
                        THEN 1 ELSE 0)]
  IN IF \/ nb.current_value = nb.min /\ new_value < nb.min
        \/ nb.current_value = nb.max /\ new_value > nb.max
     THEN called
     ELSE LET current == max(nb, min(nb, new_value))
          IN [called EXCEPT !.current_value = current,
                            !.val = current,
                            !.text = to_string(current),
                            !.changed = TRUE]

\* NumericBoxState::request_focus
numeric_box_request_focus(nb) ==
  IF ~nb.focused THEN [nb EXCEPT !.focused = TRUE] ELSE nb

\* State::update of NumericBoxState
numeric_box_update(nb) ==
  IF nb.action = NoValue THEN nb
  ELSE
    LET a == nb.action[1]
        up == change_val(nb, nb.current_value + nb.step)
        down == change_val(nb, nb.current_value - nb.step)
        done ==
          CASE a.kind = "Inc" -> up
            [] a.kind = "Dec" -> down
            [] a.kind = "ChangeByKey" ->
                 IF a.key \in {"Up", "NumpadAdd"} THEN up
                 ELSE IF a.key \in {"Down", "NumpadSubtract"} THEN down
                 ELSE IF a.key = "Enter" THEN [nb EXCEPT !.activated = TRUE]
                 ELSE nb
            [] a.kind = "ChangeByMouseScroll" ->
                 IF a.y < 0 THEN down ELSE up
            [] OTHER -> numeric_box_request_focus(nb)
    IN [done EXCEPT !.action = NoValue]

\* what the other steps leave of the record of the update made last
Settled(nb) ==
  [nb EXCEPT !.changed = FALSE, !.activated = FALSE, !.before = NoValue]

\* a click on the button that increases or on the one that decreases
NumericBoxClick ==
  /\ numeric_box.clicks < MaxClicks
  /\ \E a \in {Inc, Dec} :
       numeric_box' = [action(Settled(numeric_box), a) EXCEPT
                         !.clicks = @ + 1]
  /\ UNCHANGED numericBoxFrame

\* a key goes down on the numeric box
NumericBoxKeyDown ==
  /\ \E key \in NumericKeys :
       numeric_box' = action(Settled(numeric_box), ChangeByKey(key))
  /\ UNCHANGED numericBoxFrame

\* the mouse wheel is turned over the numeric box
NumericBoxScroll ==
  /\ \E y \in {0 - 1, 0, 1} :
       numeric_box' = action(Settled(numeric_box), ChangeByMouseScroll(y))
  /\ UNCHANGED numericBoxFrame

\* the mouse goes down on the numeric box
NumericBoxMouseDown ==
  /\ numeric_box' = action(Settled(numeric_box), Focus)
  /\ UNCHANGED numericBoxFrame

\* the state of the numeric box is updated; before holds what the update
\* started from
UpdateNumericBox ==
  /\ numeric_box' =
       [numeric_box_update(Settled(numeric_box)) EXCEPT
          !.before = Some([action |-> numeric_box.action,
                           current_value |-> numeric_box.current_value,
                           val |-> numeric_box.val,
                           text |-> numeric_box.text])]
  /\ UNCHANGED numericBoxFrame

\* a numeric box after State::init, with min <= val <= max and any step
InitNumericBox ==
  /\ InitSystem({<<>>}, {FALSE}, 0, 0, 0, RunHandlers)
  /\ dirty_widgets = <<>>
  /\ parent[MaxEntities] = root
  /\ NoTheme
  /\ NoLoader
  /\ NoWidgets
  /\ NoLayout
  /\ NoBehavior
  /\ NoSlider
  /\ \E minimum \in 0..MaxNum, maximum \in 0..MaxNum,
        value \in 0..MaxNum, step \in (0 - 1)..MaxStep :
       /\ minimum <= value
       /\ value <= maximum
       /\ numeric_box = [min |-> minimum, max |-> maximum, step |-> step,
                         current_value |-> value,
                         val |-> value,
                         text |-> to_string(value),
                         action |-> NoValue,
                         focused |-> FALSE,
                         activated |-> FALSE,
                         changed |-> FALSE,
                         clicks |-> 0,
                         applied |-> 0,
                         before |-> NoValue]

NextNumericBox ==
  \/ NumericBoxClick \/ NumericBoxKeyDown \/ NumericBoxScroll
  \/ NumericBoxMouseDown \/ UpdateNumericBox

SpecNumericBox == InitNumericBox /\ [][NextNumericBox]_vars

\* ------------------------------------------------------------------------
\* Properties of the numeric box
\* ------------------------------------------------------------------------
\* the number a text of decimal digits stands for
DigitValue(c) == (CHOOSE i \in 1..10 : DigitChars[i] = c) - 1
RECURSIVE ParseDigits(_)
ParseDigits(cs) ==
  IF cs = <<>> THEN 0
  ELSE 10 * ParseDigits(SubSeq(cs, 1, Len(cs) - 1)) + DigitValue(cs[Len(cs)])
Parse(cs) ==
  IF cs # <<>> /\ cs[1] = "-" THEN 0 - ParseDigits(Tail(cs))
  ELSE ParseDigits(cs)

\* the actions that increase and the actions that decrease
Increases(a) ==
  \/ a.kind = "Inc"
  \/ a.kind = "ChangeByKey" /\ a.key \in {"Up", "NumpadAdd"}
  \/ a.kind = "ChangeByMouseScroll" /\ a.y >= 0
Decreases(a) ==
  \/ a.kind = "Dec"
  \/ a.kind = "ChangeByKey" /\ a.key \in {"Down", "NumpadSubtract"}
  \/ a.kind = "ChangeByMouseScroll" /\ a.y < 0

\* the update made last left the value, "val" and the input text alone
Untouched ==
  /\ numeric_box.current_value = numeric_box.before[1].current_value
  /\ numeric_box.val = numeric_box.before[1].val
  /\ numeric_box.text = numeric_box.before[1].text

\* the update made last handled an increase at max or a decrease at min
AtBound ==
  /\ numeric_box.before # NoValue
  /\ numeric_box.before[1].action # NoValue
  /\ \/ /\ Increases(numeric_box.before[1].action[1])
        /\ numeric_box.before[1].current_value = numeric_box.max
     \/ /\ Decreases(numeric_box.before[1].action[1])
        /\ numeric_box.before[1].current_value = numeric_box.min

\* the value lies in the range, and a change that was applied left "val"
\* and the input text equal to the value
ValueInBounds ==
  /\ numeric_box.min <= numeric_box.current_value
  /\ numeric_box.current_value <= numeric_box.max
  /\ numeric_box.changed =>
       /\ numeric_box.val = numeric_box.current_value
       /\ Parse(numeric_box.text) = numeric_box.current_value

\* C32: with min <= max and the first value inside, the value stays in
\* [min, max] under every sequence of actions, an increase at max and a
\* decrease at min leave the value, "val" and the input text unchanged,
\* and after every applied change "val" and the text equal the value
C32_SteppingInBounds ==
  /\ ValueInBounds
  /\ AtBound => Untouched

\* C32 for a step that is not negative
C32_NonNegativeStep ==
  numeric_box.step >= 0 => (ValueInBounds /\ (AtBound => Untouched))

\* a click on the increasing button at max, with a positive step, left the
\* value at max
C32_Witness ==
  /\ numeric_box # <<>>
  /\ numeric_box.before # NoValue
  /\ numeric_box.before[1].action = Some(Inc)
  /\ numeric_box.before[1].current_value = numeric_box.max
  /\ numeric_box.step > 0
  /\ numeric_box.min < numeric_box.max
  /\ numeric_box.current_value = numeric_box.max
  /\ ~numeric_box.changed

\* C40: every click on a button that was dispatched has led to one call
\* of change_val once the state is updated, also when several clicks were
\* dispatched before the update
C40_NoClickLost ==
  numeric_box.action = NoValue =>
    numeric_box.applied = numeric_box.clicks

\* C40 the other way round: no click is applied more than once
C40_NoClickTwice ==
  numeric_box.applied <= numeric_box.clicks
====
